---- MODULE Spec2Model ----
(***************************************************************************)
(* Model of motioncam::RawBufferStreamer                                   *)
(* (libMotionCam/source/RawBufferStreamer.cpp): the streaming pipeline     *)
(* add() -> unprocessed queue -> doProcess workers -> ready queue ->       *)
(* doStream workers -> container, driven by start()/stop().                *)
(*                                                                         *)
(* Threads of the model:                                                   *)
(*   - the calling thread (ctl), which runs start(), stop(),               *)
(*     setCropAmount() and setBin() one after the other;                   *)
(*   - the capture producer, which runs add();                             *)
(*   - the doProcess threads (procT) and the doStream threads (ioT)        *)
(*     spawned by start().                                                 *)
(* Every step is one atomic access to shared state (the running flag, a    *)
(* queue operation, a counter) together with the thread-local code around  *)
(* it.                                                                     *)
(***************************************************************************)
EXTENDS Integers, Sequences, FiniteSets, TLC

\* ------------------------------------------------------------------------
\* Bounds of the model
\* ------------------------------------------------------------------------
\* Specification Spec
MaxFrames == 2
MaxWriters == 2
MaxThreads == 2
MaxSessions == 1

\* Specification SpecRestart
RestartFrames == 2
RestartWriters == 1
RestartThreads == 1
RestartSessions == 2

\* Specification SpecAudio
AudioFrames == 1
AudioWriters == 1
AudioThreads == 1
AudioSessions == 2

\* Specification SpecStop
StopFrames == 1
StopWriters == 2
StopThreads == 2
StopSessions == 1

\* Specification SpecConfig
ConfigFrames == 2
ConfigWriters == 1
ConfigThreads == 1
ConfigSessions == 1

\* Specification SpecWriteFail
FailFrames == 2
FailWriters == 2
FailThreads == 1
FailSessions == 1

\* ------------------------------------------------------------------------
\* Inputs
\* ------------------------------------------------------------------------
\* (width, height) arguments given to setCropAmount; 150 is a percentage
\* outside [0,100].
CropInputs == { <<0, 0>>, <<150, 20>> }

\* (audioInterface != nullptr, audioFd) arguments given to start().
AudioInputs == { <<FALSE, -1>>, <<TRUE, -1>>, <<TRUE, 7>> }

\* What fdopen / tinywav_open_write_f can do in stop().
AudioWriteOutcomes == { "written", "open_write_failed", "fdopen_failed" }

NoBuffer == 0

\* Pixel formats of a RawImageBuffer; YUV_420_888 stands for every format
\* that is none of the three RAW formats.
PixelFormats == { "RAW10", "RAW12", "RAW16", "YUV_420_888" }

\* (width, height) of the buffers given to the frame transformer: a sensor
\* frame, a small frame, a frame on which the double arithmetic of the crop
\* falls under an exact half, and a frame whose sides are even but no
\* multiples of 4.
BufferSizes == { <<4000, 3000>>, <<16, 12>>, <<180, 180>>, <<90, 50>> }

\* Crop percentages given to the frame transformer.
CropPercents == { 0, 10, 35, 45, 57, 100 }

\* (width, height) of the buffers whose bytes are modelled.
PixelSizes == { <<4, 2>>, <<16, 8>> }

\* Crop percentages given to the transformer of the buffers whose bytes are
\* modelled: 50 percent of 16x8 is a crop of 4 columns and 2 rows per side.
PixelCrops == { 0, 50 }

\* Contents of the data: byte k is (p[1] * k + p[2]) mod 256.  The first
\* gives small samples, the last the largest sample of every format.
BytePatterns == { <<1, 0>>, <<37, 11>>, <<0, 255>> }

\* Lengths of the sample rows given to the packers of cropAndBin.
RowLengths == { 4, 8 }

\* Contents of a sample row: sample i is (p[1] * i + p[2]) mod 2^bits.
SamplePatterns == { <<1, 0>>, <<341, 682>>, <<3, 1021>> }

\* No buffer is under transformation (the pipeline specifications).
NoImage == [ stage |-> "none" ]

VARIABLES
    mRunning,              \* mRunning
    mUnprocessedBuffers,   \* queue of frame ids
    mReadyBuffers,         \* queue of frame ids
    mWrittenFrames,
    mAcceptedFrames,
    mWrittenBytes,
    mCropWidth,
    mCropHeight,
    mBin,
    mEnableCompression,
    mAudioInterface,       \* TRUE iff the pointer is non-null
    mAudioFd,
    mProcessThreads,       \* thread ids held by the vector
    mIoThreads,            \* thread ids held by the vector
    procT,                 \* doProcess threads: id -> [pc, buf]
    ioT,                   \* doStream threads:  id -> [pc, buf]
    container,             \* doStream thread id -> [frames, commits]
    audio,                 \* the AudioInterface object and the WAV file
    ctl,                   \* the calling thread
    addPc,                 \* the capture producer inside add()
    frames,                \* frame id -> what happened to the frame
    session,               \* number of start() calls that spawned workers
    buffer                 \* the RawImageBuffer a worker has dequeued

vars == << mRunning, mUnprocessedBuffers, mReadyBuffers, mWrittenFrames,
           mAcceptedFrames, mWrittenBytes, mCropWidth, mCropHeight, mBin,
           mEnableCompression, mAudioInterface, mAudioFd, mProcessThreads,
           mIoThreads, procT, ioT, container, audio, ctl, addPc, frames,
           session, buffer >>

\* Groups used by UNCHANGED.
queueVars   == << mUnprocessedBuffers, mReadyBuffers >>
counterVars == << mWrittenFrames, mAcceptedFrames, mWrittenBytes >>
configVars  == << mCropWidth, mCropHeight, mBin, mEnableCompression >>
audioVars   == << mAudioInterface, mAudioFd, audio >>
threadVars  == << mProcessThreads, mIoThreads, procT, ioT, container >>
callerVars  == << ctl, session >>
pipelineVars == << mRunning, queueVars, counterVars, audioVars, threadVars,
                   callerVars, addPc, frames >>

\* ------------------------------------------------------------------------
\* Helpers
\* ------------------------------------------------------------------------
Range(s) == { s[i] : i \in 1 .. Len(s) }

Occurrences(s, x) == Cardinality({ i \in 1 .. Len(s) : s[i] = x })

Max(a, b) == IF a >= b THEN a ELSE b

FrameIds == DOMAIN frames

\* Length (end - start) of the valid range of frame f when it is written.
\* The length depends on the frame's data; in this model frame f carries f
\* bytes, so that the byte counter tells which frames were accounted.
ValidRangeLength(f) == f

\* Number of times frame f was passed to some container's add().
WriteCount(f) ==
    LET n[S \in SUBSET DOMAIN container] ==
            IF S = {} THEN 0
            ELSE LET t == CHOOSE x \in S : TRUE
                 IN  Occurrences(container[t].frames, f) + n[S \ {t}]
    IN  n[DOMAIN container]

\* ------------------------------------------------------------------------
\* Initial state: after RawBufferStreamer::RawBufferStreamer()
\* ------------------------------------------------------------------------
\* The calling thread between two calls.  Inside a call: pc is the place in
\* the code, op the call ("stop" or "start"), wasRunning the value of
\* mRunning when stop() was entered, nfds = fds.size(), numThreads and
\* processThreads the argument and the local variable of start().
IdleCaller ==
    [ pc |-> "idle", op |-> "none", wasRunning |-> FALSE, nfds |-> 0,
      numThreads |-> 0, processThreads |-> 0 ]

Init ==
    /\ mRunning = FALSE
    /\ mUnprocessedBuffers = << >>
    /\ mReadyBuffers = << >>
    /\ mWrittenFrames = 0
    /\ mAcceptedFrames = 0
    /\ mWrittenBytes = 0
    /\ mCropWidth = 0
    /\ mCropHeight = 0
    /\ mBin = FALSE
    /\ mEnableCompression = FALSE
    /\ mAudioInterface = FALSE
    /\ mAudioFd = -1
    /\ mProcessThreads = {}
    /\ mIoThreads = {}
    /\ procT = << >>
    /\ ioT = << >>
    /\ container = << >>
    /\ audio = [starts |-> 0, stops |-> 0, wavWrites |-> 0]
    /\ ctl = IdleCaller
    /\ addPc = "idle"
    /\ frames = << >>
    /\ session = 0
    /\ buffer = NoImage

\* ------------------------------------------------------------------------
\* The frame transformer, as far as the pipeline sees it
\* ------------------------------------------------------------------------
\* Variant of ProcessMode: the compression flag is looked at first.
ProcessMode_CompressionFirst(bin, enableCompression) ==
    IF enableCompression THEN "cropAndCompress"
    ELSE IF bin THEN "cropAndBin"
    ELSE "crop"

\* processBuffer: which of the three operations runs.
ProcessMode(bin, enableCompression) ==
    IF bin THEN "cropAndBin"
    ELSE IF enableCompression THEN "cropAndCompress"
    ELSE "crop"

\* processBuffer(buffer) run by thread kind `by` ("doProcess" or "doStream")
\* of session s: the frame's record after the call.
processBuffer(f, by, s) ==
    [frames[f] EXCEPT
        !.processed = @ + 1,
        !.processedBy = by,
        !.processSession = s,
        !.mode = ProcessMode(mBin, mEnableCompression),
        !.crop = << mCropWidth, mCropHeight >>]

\* ------------------------------------------------------------------------
\* add(): the capture producer
\* ------------------------------------------------------------------------
NewFrame ==
    [ \* add() was called after start() returned and before stop() was called
      inSession |-> mRunning /\ ctl.pc = "idle",
      addSession |-> session,
      processed |-> 0,
      processedBy |-> "none",
      processSession |-> 0,
      mode |-> "none",
      crop |-> << >>,
      discards |-> 0 ]

\* Variant of add_Enqueue: the frame is dropped when the streamer is not
\* running.
add_Enqueue_IfRunning(maxFrames) ==
    /\ addPc = "idle"
    /\ Len(frames) < maxFrames
    /\ mUnprocessedBuffers' =
           IF mRunning THEN Append(mUnprocessedBuffers, Len(frames) + 1)
           ELSE mUnprocessedBuffers
    /\ frames' = Append(frames, NewFrame)
    /\ addPc' = "count"
    /\ UNCHANGED << mRunning, mReadyBuffers, counterVars, configVars,
                    audioVars, threadVars, callerVars >>
    /\ UNCHANGED buffer

\* mUnprocessedBuffers.enqueue(frame)
add_Enqueue(maxFrames) ==
    /\ addPc = "idle"
    /\ Len(frames) < maxFrames
    /\ mUnprocessedBuffers' = Append(mUnprocessedBuffers, Len(frames) + 1)
    /\ frames' = Append(frames, NewFrame)
    /\ addPc' = "count"
    /\ UNCHANGED << mRunning, mReadyBuffers, counterVars, configVars,
                    audioVars, threadVars, callerVars >>
    /\ UNCHANGED buffer

\* mAcceptedFrames++
add_Count ==
    /\ addPc = "count"
    /\ mAcceptedFrames' = mAcceptedFrames + 1
    /\ addPc' = "idle"
    /\ UNCHANGED << mRunning, queueVars, mWrittenFrames, mWrittenBytes,
                    configVars, audioVars, threadVars, callerVars, frames >>
    /\ UNCHANGED buffer

\* ------------------------------------------------------------------------
\* setCropAmount(), setBin(): the calling thread
\* ------------------------------------------------------------------------
\* Variant of setCropAmount: the running check is missing.
setCropAmount_Unguarded(width, height) ==
    /\ ctl.pc = "idle"
    /\ mCropHeight' = height
    /\ mCropWidth' = width
    /\ UNCHANGED << mRunning, queueVars, counterVars, mBin,
                    mEnableCompression, audioVars, threadVars, callerVars,
                    addPc, frames >>
    /\ UNCHANGED buffer

setCropAmount(width, height) ==
    /\ ctl.pc = "idle"
    /\ IF ~mRunning
          THEN /\ mCropHeight' = height
               /\ mCropWidth' = width
          ELSE UNCHANGED << mCropHeight, mCropWidth >>
    /\ UNCHANGED << mRunning, queueVars, counterVars, mBin,
                    mEnableCompression, audioVars, threadVars, callerVars,
                    addPc, frames >>
    /\ UNCHANGED buffer

setBin(bin) ==
    /\ ctl.pc = "idle"
    /\ mBin' = bin
    /\ UNCHANGED << mRunning, queueVars, counterVars, mCropWidth,
                    mCropHeight, mEnableCompression, audioVars, threadVars,
                    callerVars, addPc, frames >>
    /\ UNCHANGED buffer

\* ------------------------------------------------------------------------
\* stop(): the calling thread, directly or as the first statement of start()
\* ------------------------------------------------------------------------
\* mRunning = false, entered from the caller (op = "stop") or from start()
\* (op = "start").
stop_Enter(op, maxSessions) ==
    /\ ctl.pc = "idle"
    /\ op = "start" => session < maxSessions
    /\ mRunning' = FALSE
    /\ ctl' = [ctl EXCEPT !.pc = "stop_audio", !.op = op,
                          !.wasRunning = mRunning]
    /\ UNCHANGED << queueVars, counterVars, configVars, audioVars,
                    threadVars, session, addPc, frames >>
    /\ UNCHANGED buffer

\* Variant of stop_Audio: mAudioInterface is not reset after the flush.
stop_Audio_KeepInterface(outcome) ==
    /\ ctl.pc = "stop_audio"
    /\ IF mAudioInterface
          THEN audio' = [audio EXCEPT
                            !.stops = @ + 1,
                            !.wavWrites = IF outcome = "written"
                                             THEN @ + 1 ELSE @]
          ELSE /\ outcome = "written"
               /\ UNCHANGED audio
    /\ UNCHANGED << mAudioInterface, mAudioFd >>
    /\ ctl' = [ctl EXCEPT !.pc = "stop_joinProcess"]
    /\ UNCHANGED << mRunning, queueVars, counterVars, configVars,
                    threadVars, session, addPc, frames >>
    /\ UNCHANGED buffer

\* Variant of stop_Audio: stop() returns when the audio file cannot be
\* written.
stop_Audio_ReturnOnFailure(outcome) ==
    /\ ctl.pc = "stop_audio"
    /\ IF mAudioInterface
          THEN audio' = [audio EXCEPT
                            !.stops = @ + 1,
                            !.wavWrites = IF outcome = "written"
                                             THEN @ + 1 ELSE @]
          ELSE /\ outcome = "written"
               /\ UNCHANGED audio
    /\ mAudioInterface' = FALSE
    /\ mAudioFd' = -1
    /\ ctl' = IF mAudioInterface /\ outcome # "written"
                 THEN IF ctl.op = "start"
                         THEN [ctl EXCEPT !.pc = "start_check"]
                         ELSE IdleCaller
                 ELSE [ctl EXCEPT !.pc = "stop_joinProcess"]
    /\ UNCHANGED << mRunning, queueVars, counterVars, configVars,
                    threadVars, session, addPc, frames >>
    /\ UNCHANGED buffer

\* if(mAudioInterface) { stop; flush to disk }  mAudioInterface = nullptr;
\* mAudioFd = -1
stop_Audio(outcome) ==
    /\ ctl.pc = "stop_audio"
    /\ IF mAudioInterface
          THEN audio' = [audio EXCEPT
                            !.stops = @ + 1,
                            !.wavWrites = IF outcome = "written"
                                             THEN @ + 1 ELSE @]
          ELSE /\ outcome = "written"
               /\ UNCHANGED audio
    /\ mAudioInterface' = FALSE
    /\ mAudioFd' = -1
    /\ ctl' = [ctl EXCEPT !.pc = "stop_joinProcess"]
    /\ UNCHANGED << mRunning, queueVars, counterVars, configVars,
                    threadVars, session, addPc, frames >>
    /\ UNCHANGED buffer

\* Variant of stop_JoinProcess: the threads are dropped without being joined.
stop_JoinProcess_NoWait ==
    /\ ctl.pc = "stop_joinProcess"
    /\ mProcessThreads' = {}
    /\ ctl' = [ctl EXCEPT !.pc = "stop_joinIo"]
    /\ UNCHANGED << mRunning, queueVars, counterVars, configVars, audioVars,
                    mIoThreads, procT, ioT, container, session, addPc,
                    frames >>
    /\ UNCHANGED buffer

\* for(thread : mProcessThreads) thread->join();  mProcessThreads.clear()
stop_JoinProcess ==
    /\ ctl.pc = "stop_joinProcess"
    /\ \A t \in mProcessThreads : procT[t].pc = "done"
    /\ mProcessThreads' = {}
    /\ ctl' = [ctl EXCEPT !.pc = "stop_joinIo"]
    /\ UNCHANGED << mRunning, queueVars, counterVars, configVars, audioVars,
                    mIoThreads, procT, ioT, container, session,
                    addPc, frames >>
    /\ UNCHANGED buffer

\* Variant of stop_JoinIo: the threads are dropped without being joined.
stop_JoinIo_NoWait ==
    /\ ctl.pc = "stop_joinIo"
    /\ mIoThreads' = {}
    /\ ctl' = IF ctl.op = "start"
                 THEN [ctl EXCEPT !.pc = "start_check"]
                 ELSE IdleCaller
    /\ UNCHANGED << mRunning, queueVars, counterVars, configVars, audioVars,
                    mProcessThreads, procT, ioT, container, session, addPc,
                    frames >>
    /\ UNCHANGED buffer

\* for(thread : mIoThreads) thread->join();  mIoThreads.clear();  return
stop_JoinIo ==
    /\ ctl.pc = "stop_joinIo"
    /\ \A t \in mIoThreads : ioT[t].pc = "done"
    /\ mIoThreads' = {}
    /\ ctl' = IF ctl.op = "start"
                 THEN [ctl EXCEPT !.pc = "start_check"]
                 ELSE IdleCaller
    /\ UNCHANGED << mRunning, queueVars, counterVars, configVars, audioVars,
                    mProcessThreads, procT, ioT, container, session,
                    addPc, frames >>
    /\ UNCHANGED buffer

stop == stop_Enter("stop", 0)

\* ------------------------------------------------------------------------
\* start(): the calling thread
\* ------------------------------------------------------------------------
\* stop();
start_Stop(maxSessions) == stop_Enter("start", maxSessions)

\* if(fds.empty()) { log; return; }
start_NoFds(nfds) ==
    /\ ctl.pc = "start_check"
    /\ nfds = 0
    /\ ctl' = IdleCaller
    /\ UNCHANGED << mRunning, queueVars, counterVars, configVars, audioVars,
                    threadVars, session, addPc, frames >>
    /\ UNCHANGED buffer

\* Variant of start_Begin: the audio interface is started whenever one is
\* supplied, whatever audioFd is.
start_Begin_NoAudioFdCheck(nfds, enableCompression, audioInterface, audioFd) ==
    /\ ctl.pc = "start_check"
    /\ nfds > 0
    /\ mRunning' = TRUE
    /\ mEnableCompression' = enableCompression
    /\ mWrittenFrames' = 0
    /\ mWrittenBytes' = 0
    /\ mAcceptedFrames' = 0
    /\ IF audioInterface
          THEN /\ mAudioInterface' = audioInterface
               /\ mAudioFd' = audioFd
               /\ audio' = [audio EXCEPT !.starts = @ + 1]
          ELSE UNCHANGED << mAudioInterface, mAudioFd, audio >>
    /\ session' = session + 1
    /\ ctl' = [ctl EXCEPT !.pc = "start_spawnIo", !.nfds = nfds]
    /\ UNCHANGED << queueVars, mCropWidth, mCropHeight, mBin, threadVars,
                    addPc, frames >>
    /\ UNCHANGED buffer

\* mRunning = true; mEnableCompression = ...; counters = 0; start audio
start_Begin(nfds, enableCompression, audioInterface, audioFd) ==
    /\ ctl.pc = "start_check"
    /\ nfds > 0
    /\ mRunning' = TRUE
    /\ mEnableCompression' = enableCompression
    /\ mWrittenFrames' = 0
    /\ mWrittenBytes' = 0
    /\ mAcceptedFrames' = 0
    /\ IF audioInterface /\ audioFd >= 0
          THEN /\ mAudioInterface' = audioInterface
               /\ mAudioFd' = audioFd
               /\ audio' = [audio EXCEPT !.starts = @ + 1]
          ELSE UNCHANGED << mAudioInterface, mAudioFd, audio >>
    /\ session' = session + 1
    /\ ctl' = [ctl EXCEPT !.pc = "start_spawnIo", !.nfds = nfds]
    /\ UNCHANGED << queueVars, mCropWidth, mCropHeight, mBin, threadVars,
                    addPc, frames >>
    /\ UNCHANGED buffer

\* for(i < fds.size()) mIoThreads.push_back(new thread(doStream, fds[i]))
\* The new thread's first statement, RawContainer::Create, touches nothing
\* shared and is part of this step.
start_SpawnIo ==
    /\ ctl.pc = "start_spawnIo"
    /\ Cardinality(mIoThreads) < ctl.nfds
    /\ LET t == << session, Cardinality(mIoThreads) + 1 >>
       IN  /\ ioT' = ioT @@ (t :> [pc |-> "check", buf |-> NoBuffer])
           /\ container' =
                  container @@ (t :> [frames |-> << >>, commits |-> 0])
           /\ mIoThreads' = mIoThreads \cup {t}
    /\ UNCHANGED << mRunning, queueVars, counterVars, configVars, audioVars,
                    mProcessThreads, procT, callerVars, addPc, frames >>
    /\ UNCHANGED buffer

\* Variant of start_ProcessThreads: numThreads is used as given.
start_ProcessThreads_NoMax(numThreads) ==
    /\ ctl.pc = "start_spawnIo"
    /\ Cardinality(mIoThreads) = ctl.nfds
    /\ ctl' = [ctl EXCEPT !.pc = "start_spawnProcess",
                          !.numThreads = numThreads,
                          !.processThreads = numThreads]
    /\ UNCHANGED << mRunning, queueVars, counterVars, configVars, audioVars,
                    threadVars, session, addPc, frames >>
    /\ UNCHANGED buffer

\* int processThreads = max(numThreads, 1);
start_ProcessThreads(numThreads) ==
    /\ ctl.pc = "start_spawnIo"
    /\ Cardinality(mIoThreads) = ctl.nfds
    /\ ctl' = [ctl EXCEPT !.pc = "start_spawnProcess",
                          !.numThreads = numThreads,
                          !.processThreads = Max(numThreads, 1)]
    /\ UNCHANGED << mRunning, queueVars, counterVars, configVars, audioVars,
                    threadVars, session, addPc, frames >>
    /\ UNCHANGED buffer

\* for(i < processThreads) mProcessThreads.push_back(new thread(doProcess))
start_SpawnProcess ==
    /\ ctl.pc = "start_spawnProcess"
    /\ Cardinality(mProcessThreads) < ctl.processThreads
    /\ LET t == << session, Cardinality(mProcessThreads) + 1 >>
       IN  /\ procT' = procT @@ (t :> [pc |-> "check", buf |-> NoBuffer])
           /\ mProcessThreads' = mProcessThreads \cup {t}
    /\ UNCHANGED << mRunning, queueVars, counterVars, configVars, audioVars,
                    mIoThreads, ioT, container, callerVars, addPc, frames >>
    /\ UNCHANGED buffer

\* start() returns after the last spawn.
start_Return ==
    /\ ctl.pc = "start_spawnProcess"
    /\ Cardinality(mProcessThreads) = ctl.processThreads
    /\ ctl' = IdleCaller
    /\ UNCHANGED << mRunning, queueVars, counterVars, configVars, audioVars,
                    threadVars, session, addPc, frames >>
    /\ UNCHANGED buffer

\* ------------------------------------------------------------------------
\* doProcess(): a transform worker
\* ------------------------------------------------------------------------
\* Variant of doProcess_Check: the loop never looks at mRunning.
doProcess_Check_Forever(t) ==
    /\ procT[t].pc = "check"
    /\ procT' = [procT EXCEPT ![t].pc = "wait"]
    /\ UNCHANGED << mRunning, queueVars, counterVars, configVars, audioVars,
                    mProcessThreads, mIoThreads, ioT, container, callerVars,
                    addPc, frames >>
    /\ UNCHANGED buffer

\* while(mRunning)
doProcess_Check(t) ==
    /\ procT[t].pc = "check"
    /\ procT' = [procT EXCEPT ![t].pc = IF mRunning THEN "wait" ELSE "done"]
    /\ UNCHANGED << mRunning, queueVars, counterVars, configVars, audioVars,
                    mProcessThreads, mIoThreads, ioT, container, callerVars,
                    addPc, frames >>
    /\ UNCHANGED buffer

\* Variant of doProcess_Wait: the frame is read but stays in the queue.
doProcess_Wait_NoRemove(t) ==
    /\ procT[t].pc = "wait"
    /\ IF mUnprocessedBuffers # << >>
          THEN procT' = [procT EXCEPT ![t].pc = "process",
                                      ![t].buf = Head(mUnprocessedBuffers)]
          ELSE procT' = [procT EXCEPT ![t].pc = "check"]
    /\ UNCHANGED << mRunning, queueVars, counterVars, configVars,
                    audioVars, mProcessThreads, mIoThreads, ioT, container,
                    callerVars, addPc, frames >>
    /\ UNCHANGED buffer

\* if(!mUnprocessedBuffers.wait_dequeue_timed(buffer, 67ms)) continue;
doProcess_Wait(t) ==
    /\ procT[t].pc = "wait"
    /\ IF mUnprocessedBuffers # << >>
          THEN /\ procT' = [procT EXCEPT
                               ![t].pc = "process",
                               ![t].buf = Head(mUnprocessedBuffers)]
               /\ mUnprocessedBuffers' = Tail(mUnprocessedBuffers)
          ELSE /\ procT' = [procT EXCEPT ![t].pc = "check"]
               /\ UNCHANGED mUnprocessedBuffers
    /\ UNCHANGED << mRunning, mReadyBuffers, counterVars, configVars,
                    audioVars, mProcessThreads, mIoThreads, ioT, container,
                    callerVars, addPc, frames >>
    /\ UNCHANGED buffer

\* Variant of doProcess_Process: the frame goes to the ready queue as it
\* came.
doProcess_Process_NoProcess(t) ==
    /\ procT[t].pc = "process"
    /\ mReadyBuffers' = Append(mReadyBuffers, procT[t].buf)
    /\ procT' = [procT EXCEPT ![t].pc = "check", ![t].buf = NoBuffer]
    /\ UNCHANGED << mRunning, mUnprocessedBuffers, counterVars, configVars,
                    audioVars, mProcessThreads, mIoThreads, ioT, container,
                    callerVars, addPc, frames >>
    /\ UNCHANGED buffer

\* Variant of doProcess_Process: the processed frame is not enqueued.
doProcess_Process_NoEnqueue(t) ==
    /\ procT[t].pc = "process"
    /\ frames' = [frames EXCEPT
                     ![procT[t].buf] = processBuffer(procT[t].buf, "doProcess", t[1])]
    /\ procT' = [procT EXCEPT ![t].pc = "check", ![t].buf = NoBuffer]
    /\ UNCHANGED << mRunning, queueVars, counterVars, configVars,
                    audioVars, mProcessThreads, mIoThreads, ioT, container,
                    callerVars, addPc >>
    /\ UNCHANGED buffer

\* processBuffer(buffer); mReadyBuffers.enqueue(buffer);
doProcess_Process(t) ==
    /\ procT[t].pc = "process"
    /\ frames' = [frames EXCEPT
                     ![procT[t].buf] = processBuffer(procT[t].buf, "doProcess", t[1])]
    /\ mReadyBuffers' = Append(mReadyBuffers, procT[t].buf)
    /\ procT' = [procT EXCEPT ![t].pc = "check", ![t].buf = NoBuffer]
    /\ UNCHANGED << mRunning, mUnprocessedBuffers, counterVars, configVars,
                    audioVars, mProcessThreads, mIoThreads, ioT, container,
                    callerVars, addPc >>
    /\ UNCHANGED buffer

\* ------------------------------------------------------------------------
\* doStream(): a writer worker
\* ------------------------------------------------------------------------
\* container->add(*buffer, true); getValidRange; discardBuffer(buffer);
\* mWrittenBytes += (end - start); mWrittenFrames++;
\* The frame record fr is the buffer as it is handed to the container.
WriteBuffer(t, f, fr, nextPc) ==
    /\ container' = [container EXCEPT ![t].frames = Append(@, f)]
    /\ frames' = [frames EXCEPT ![f] = [fr EXCEPT !.discards = @ + 1]]
    /\ mWrittenBytes' = mWrittenBytes + ValidRangeLength(f)
    /\ mWrittenFrames' = mWrittenFrames + 1
    /\ ioT' = [ioT EXCEPT ![t].pc = nextPc, ![t].buf = NoBuffer]

\* Variant of doStream_Check: after the loop the ready queue is not drained.
doStream_Check_NoReadyFlush(t) ==
    /\ ioT[t].pc = "check"
    /\ ioT' = [ioT EXCEPT
                  ![t].pc = IF mRunning THEN "wait" ELSE "flushUnprocessed"]
    /\ UNCHANGED << mRunning, queueVars, counterVars, configVars, audioVars,
                    mProcessThreads, mIoThreads, procT, container,
                    callerVars, addPc, frames >>
    /\ UNCHANGED buffer

\* while(mRunning)
doStream_Check(t) ==
    /\ ioT[t].pc = "check"
    /\ ioT' = [ioT EXCEPT ![t].pc = IF mRunning THEN "wait" ELSE "flushReady"]
    /\ UNCHANGED << mRunning, queueVars, counterVars, configVars, audioVars,
                    mProcessThreads, mIoThreads, procT, container,
                    callerVars, addPc, frames >>
    /\ UNCHANGED buffer

\* Variant of doStream_Wait: the frame is read but stays in the queue.
doStream_Wait_NoRemove(t) ==
    /\ ioT[t].pc = "wait"
    /\ IF mReadyBuffers # << >>
          THEN ioT' = [ioT EXCEPT ![t].pc = "write",
                                  ![t].buf = Head(mReadyBuffers)]
          ELSE ioT' = [ioT EXCEPT ![t].pc = "check"]
    /\ UNCHANGED << mRunning, queueVars, counterVars, configVars,
                    audioVars, mProcessThreads, mIoThreads, procT, container,
                    callerVars, addPc, frames >>
    /\ UNCHANGED buffer

\* if(!mReadyBuffers.wait_dequeue_timed(buffer, 100ms)) continue;
doStream_Wait(t) ==
    /\ ioT[t].pc = "wait"
    /\ IF mReadyBuffers # << >>
          THEN /\ ioT' = [ioT EXCEPT ![t].pc = "write",
                                     ![t].buf = Head(mReadyBuffers)]
               /\ mReadyBuffers' = Tail(mReadyBuffers)
          ELSE /\ ioT' = [ioT EXCEPT ![t].pc = "check"]
               /\ UNCHANGED mReadyBuffers
    /\ UNCHANGED << mRunning, mUnprocessedBuffers, counterVars, configVars,
                    audioVars, mProcessThreads, mIoThreads, procT, container,
                    callerVars, addPc, frames >>
    /\ UNCHANGED buffer

\* Variant of doStream_Write: the frame is written and counted but not given
\* back to the pool.
doStream_Write_NoDiscard(t) ==
    /\ ioT[t].pc = "write"
    /\ container' = [container EXCEPT ![t].frames = Append(@, ioT[t].buf)]
    /\ mWrittenBytes' = mWrittenBytes + ValidRangeLength(ioT[t].buf)
    /\ mWrittenFrames' = mWrittenFrames + 1
    /\ ioT' = [ioT EXCEPT ![t].pc = "check", ![t].buf = NoBuffer]
    /\ UNCHANGED << mRunning, queueVars, mAcceptedFrames, configVars,
                    audioVars, mProcessThreads, mIoThreads, procT,
                    callerVars, addPc, frames >>
    /\ UNCHANGED buffer

\* the body of the while(mRunning) loop after a successful dequeue
doStream_Write(t) ==
    /\ ioT[t].pc = "write"
    /\ WriteBuffer(t, ioT[t].buf, frames[ioT[t].buf], "check")
    /\ UNCHANGED << mRunning, queueVars, mAcceptedFrames, configVars,
                    audioVars, mProcessThreads, mIoThreads, procT,
                    callerVars, addPc >>
    /\ UNCHANGED buffer

\* Variant of doStream_FlushReady: the frame is read but stays in the queue.
doStream_FlushReady_NoRemove(t) ==
    /\ ioT[t].pc = "flushReady"
    /\ IF mReadyBuffers # << >>
          THEN ioT' = [ioT EXCEPT ![t].pc = "flushWrite",
                                  ![t].buf = Head(mReadyBuffers)]
          ELSE ioT' = [ioT EXCEPT ![t].pc = "flushUnprocessed"]
    /\ UNCHANGED << mRunning, queueVars, counterVars, configVars,
                    audioVars, mProcessThreads, mIoThreads, procT, container,
                    callerVars, addPc, frames >>
    /\ UNCHANGED buffer

\* while(mReadyBuffers.try_dequeue(buffer))
doStream_FlushReady(t) ==
    /\ ioT[t].pc = "flushReady"
    /\ IF mReadyBuffers # << >>
          THEN /\ ioT' = [ioT EXCEPT ![t].pc = "flushWrite",
                                     ![t].buf = Head(mReadyBuffers)]
               /\ mReadyBuffers' = Tail(mReadyBuffers)
          ELSE /\ ioT' = [ioT EXCEPT ![t].pc = "flushUnprocessed"]
               /\ UNCHANGED mReadyBuffers
    /\ UNCHANGED << mRunning, mUnprocessedBuffers, counterVars, configVars,
                    audioVars, mProcessThreads, mIoThreads, procT, container,
                    callerVars, addPc, frames >>
    /\ UNCHANGED buffer

\* Variant of doStream_FlushWrite: this copy of the loop body counts the
\* frame but not its bytes.
doStream_FlushWrite_NoBytes(t) ==
    /\ ioT[t].pc = "flushWrite"
    /\ container' = [container EXCEPT ![t].frames = Append(@, ioT[t].buf)]
    /\ frames' = [frames EXCEPT ![ioT[t].buf].discards = @ + 1]
    /\ mWrittenFrames' = mWrittenFrames + 1
    /\ ioT' = [ioT EXCEPT ![t].pc = "flushReady", ![t].buf = NoBuffer]
    /\ UNCHANGED << mRunning, queueVars, mAcceptedFrames, mWrittenBytes,
                    configVars, audioVars, mProcessThreads, mIoThreads,
                    procT, callerVars, addPc >>
    /\ UNCHANGED buffer

\* the body of the ready-buffers flush loop
doStream_FlushWrite(t) ==
    /\ ioT[t].pc = "flushWrite"
    /\ WriteBuffer(t, ioT[t].buf, frames[ioT[t].buf], "flushReady")
    /\ UNCHANGED << mRunning, queueVars, mAcceptedFrames, configVars,
                    audioVars, mProcessThreads, mIoThreads, procT,
                    callerVars, addPc >>
    /\ UNCHANGED buffer

\* while(mUnprocessedBuffers.try_dequeue(buffer))
doStream_FlushUnprocessed(t) ==
    /\ ioT[t].pc = "flushUnprocessed"
    /\ IF mUnprocessedBuffers # << >>
          THEN /\ ioT' = [ioT EXCEPT ![t].pc = "flushProcess",
                                     ![t].buf = Head(mUnprocessedBuffers)]
               /\ mUnprocessedBuffers' = Tail(mUnprocessedBuffers)
          ELSE /\ ioT' = [ioT EXCEPT ![t].pc = "commit"]
               /\ UNCHANGED mUnprocessedBuffers
    /\ UNCHANGED << mRunning, mReadyBuffers, counterVars, configVars,
                    audioVars, mProcessThreads, mIoThreads, procT, container,
                    callerVars, addPc, frames >>
    /\ UNCHANGED buffer

\* Variant of doStream_FlushProcess: the frame is written as it was
\* dequeued.
doStream_FlushProcess_NoProcess(t) ==
    /\ ioT[t].pc = "flushProcess"
    /\ WriteBuffer(t, ioT[t].buf, frames[ioT[t].buf], "flushUnprocessed")
    /\ UNCHANGED << mRunning, queueVars, mAcceptedFrames, configVars,
                    audioVars, mProcessThreads, mIoThreads, procT,
                    callerVars, addPc >>
    /\ UNCHANGED buffer

\* the body of the unprocessed-buffers flush loop: processBuffer, then write
doStream_FlushProcess(t) ==
    /\ ioT[t].pc = "flushProcess"
    /\ WriteBuffer(t, ioT[t].buf,
                   processBuffer(ioT[t].buf, "doStream", t[1]),
                   "flushUnprocessed")
    /\ UNCHANGED << mRunning, queueVars, mAcceptedFrames, configVars,
                    audioVars, mProcessThreads, mIoThreads, procT,
                    callerVars, addPc >>
    /\ UNCHANGED buffer

\* container->commit(); and the thread ends
doStream_Commit(t) ==
    /\ ioT[t].pc = "commit"
    /\ container' = [container EXCEPT ![t].commits = @ + 1]
    /\ ioT' = [ioT EXCEPT ![t].pc = "done"]
    /\ UNCHANGED << mRunning, queueVars, counterVars, configVars, audioVars,
                    mProcessThreads, mIoThreads, procT, callerVars, addPc,
                    frames >>
    /\ UNCHANGED buffer

\* ------------------------------------------------------------------------
\* doStream() when the container's add() fails
\* ------------------------------------------------------------------------
\* How RawContainer::add can report a failed write to its caller.
ContainerAddFailures == { "returns", "throws" }

\* The places of doStream that call container->add, and where each loop goes
\* on after its body.
AddPlaces == { "write", "flushWrite", "flushProcess" }

AfterAdd(pc) ==
    CASE pc = "write" -> "check"
      [] pc = "flushWrite" -> "flushReady"
      [] pc = "flushProcess" -> "flushUnprocessed"

\* The frame handed to container->add at place pc: in the unprocessed flush
\* loop processBuffer has run on it first.
FrameAtAdd(t) ==
    IF ioT[t].pc = "flushProcess"
       THEN processBuffer(ioT[t].buf, "doStream", t[1])
       ELSE frames[ioT[t].buf]

\* container->add(*buffer, true) fails and returns: doStream does not look at
\* any result of the call, so the rest of the loop body runs and the loop
\* goes on.
doStream_AddFails(t) ==
    /\ ioT[t].pc \in AddPlaces
    /\ frames' = [frames EXCEPT
                     ![ioT[t].buf] = [FrameAtAdd(t) EXCEPT !.discards = @ + 1]]
    /\ mWrittenBytes' = mWrittenBytes + ValidRangeLength(ioT[t].buf)
    /\ mWrittenFrames' = mWrittenFrames + 1
    /\ ioT' = [ioT EXCEPT ![t].pc = AfterAdd(ioT[t].pc), ![t].buf = NoBuffer]
    /\ UNCHANGED << mRunning, queueVars, mAcceptedFrames, configVars,
                    audioVars, mProcessThreads, mIoThreads, procT, container,
                    callerVars, addPc >>
    /\ UNCHANGED buffer

\* container->add(*buffer, true) fails and throws: doStream has no handler,
\* the exception leaves the thread function and std::terminate ends the
\* process; no thread takes another step.
doStream_AddThrows(t) ==
    /\ ioT[t].pc \in AddPlaces
    /\ frames' = [frames EXCEPT ![ioT[t].buf] = FrameAtAdd(t)]
    /\ ioT' = [u \in DOMAIN ioT |->
                  IF ioT[u].pc = "done" THEN ioT[u]
                  ELSE [ioT[u] EXCEPT !.pc = "terminated"]]
    /\ procT' = [u \in DOMAIN procT |->
                   IF procT[u].pc = "done" THEN procT[u]
                   ELSE [procT[u] EXCEPT !.pc = "terminated"]]
    /\ ctl' = [ctl EXCEPT !.pc = "terminated"]
    /\ addPc' = "terminated"
    /\ UNCHANGED << mRunning, queueVars, counterVars, configVars, audioVars,
                    mProcessThreads, mIoThreads, container, session >>
    /\ UNCHANGED buffer

\* ------------------------------------------------------------------------
\* The frame transformer on a buffer: crop, cropAndCompress, cropAndBin
\* ------------------------------------------------------------------------
\* Integer division of C, which truncates towards zero.
Div(a, b) == IF a >= 0 THEN a \div b ELSE -((-a) \div b)

\* (percentage, size) pairs of the inputs for which percentage/100.0 * size,
\* computed in doubles, falls just under an exact k + 1/2 (35/100.0 is less
\* than 0.35), so that lround gives k and not k + 1.
DoubleUnderHalf == { <<35, 180>> }

\* lround(0.5f * (percentage/100.0 * size)): the nearest integer, halves away
\* from zero, of the double product.
lround(percentage, size) ==
    LET n == percentage * size
        nearest == IF n >= 0 THEN (n + 100) \div 200
                   ELSE -((100 - n) \div 200)
    IN  IF << percentage, size >> \in DoubleUnderHalf
           THEN nearest - 1
           ELSE nearest

\* Variant of horizontalCrop: rounded down to a multiple of 2, as the
\* vertical crop is.
horizontalCrop_Even(b) == 2 * Div(lround(mCropWidth, b.width), 2)

horizontalCrop(b) == 4 * Div(lround(mCropWidth, b.width), 4)
verticalCrop(b) == 2 * Div(lround(mCropHeight, b.height), 2)
croppedWidth(b) == b.width - horizontalCrop(b) * 2

\* Variant of croppedHeight: the vertical crop is taken off one side only.
croppedHeight_OneSide(b) == b.height - verticalCrop(b)

croppedHeight(b) == b.height - verticalCrop(b) * 2

\* Number of passes of for(v = from; v < to; v += step).
Passes(from, to, step) ==
    IF to <= from THEN 0 ELSE (to - from + step - 1) \div step

\* Bytes bitnzpack16 writes for a row of n samples.  The codec is a library
\* and the length depends on the samples; the rows of the model's buffers
\* take one byte per sample and one byte of header.
bitnzpack16(n) == n + 1

\* buffer.data->lock(true), buffer.data->unlock()
lock(b) == [b EXCEPT !.locked = TRUE, !.lockCount = @ + 1]
unlock(b) == [b EXCEPT !.locked = FALSE, !.unlockCount = @ + 1]

\* The function was entered.
Called(b, name) == [b EXCEPT !.calls = Append(@, name)]

\* std::vector<uint16_t>(n) with a negative n: the size converts to a huge
\* size_t and the constructor throws std::length_error.
Throws(b) == [b EXCEPT !.exception = "length_error"]

\* Variant of crop: the row stride is computed from the width before the
\* crop.
crop_StrideOfOldWidth(b0) ==
    LET b == Called(b0, "crop")
    IN  IF mCropWidth = 0 /\ mCropHeight = 0 /\ b.pixelFormat # "RAW16"
           THEN b
        ELSE IF b.pixelFormat \notin { "RAW10", "RAW12", "RAW16" }
           THEN unlock(lock(b))
        ELSE LET croppedRowStride ==
                     IF b.pixelFormat = "RAW10"
                        THEN Div(10 * b.width, 8)
                        ELSE Div(12 * b.width, 8)
             IN  [unlock(lock(b)) EXCEPT
                     !.pixelFormat =
                         IF @ = "RAW16" THEN "RAW12" ELSE @,
                     !.rowStride = croppedRowStride,
                     !.width = croppedWidth(b),
                     !.height = croppedHeight(b),
                     !.isCompressed = FALSE,
                     !.compressionType = "UNCOMPRESSED",
                     !.dataWritten = TRUE,
                     !.validRange =
                         << 0, croppedRowStride * croppedHeight(b) >>]

\* Variant of crop: a zero crop returns at once whatever the format is.
crop_ZeroCropReturns(b0) ==
    LET b == Called(b0, "crop")
    IN  IF mCropWidth = 0 /\ mCropHeight = 0
           THEN b
        ELSE IF b.pixelFormat \notin { "RAW10", "RAW12", "RAW16" }
           THEN unlock(lock(b))
        ELSE LET croppedRowStride ==
                     IF b.pixelFormat = "RAW10"
                        THEN Div(10 * croppedWidth(b), 8)
                        ELSE Div(12 * croppedWidth(b), 8)
             IN  [unlock(lock(b)) EXCEPT
                     !.pixelFormat =
                         IF @ = "RAW16" THEN "RAW12" ELSE @,
                     !.rowStride = croppedRowStride,
                     !.width = croppedWidth(b),
                     !.height = croppedHeight(b),
                     !.isCompressed = FALSE,
                     !.compressionType = "UNCOMPRESSED",
                     !.dataWritten = TRUE,
                     !.validRange =
                         << 0, croppedRowStride * croppedHeight(b) >>]

\* crop(buffer)
crop(b0) ==
    LET b == Called(b0, "crop")
    IN  IF mCropWidth = 0 /\ mCropHeight = 0 /\ b.pixelFormat # "RAW16"
           THEN b
        ELSE IF b.pixelFormat \notin { "RAW10", "RAW12", "RAW16" }
           THEN unlock(lock(b))
        ELSE LET croppedRowStride ==
                     IF b.pixelFormat = "RAW10"
                        THEN Div(10 * croppedWidth(b), 8)
                        ELSE Div(12 * croppedWidth(b), 8)
             IN  [unlock(lock(b)) EXCEPT
                     !.pixelFormat =
                         IF @ = "RAW16" THEN "RAW12" ELSE @,
                     !.rowStride = croppedRowStride,
                     !.width = croppedWidth(b),
                     !.height = croppedHeight(b),
                     !.isCompressed = FALSE,
                     !.compressionType = "UNCOMPRESSED",
                     !.dataWritten = TRUE,
                     !.validRange =
                         << 0, croppedRowStride * croppedHeight(b) >>]

\* Variant of cropAndCompress: the return for an unsupported format leaves
\* the data locked.
cropAndCompress_KeepsLock(b0) ==
    LET b == Called(b0, "cropAndCompress")
        ystart == verticalCrop(b)
        yend == b.height - ystart
        offset == Passes(ystart, yend, 1) * bitnzpack16(croppedWidth(b))
    IN  IF croppedWidth(b) < 0
           THEN Throws(lock(b))
        ELSE IF b.pixelFormat \notin { "RAW10", "RAW12", "RAW16" }
           THEN lock(b)
        ELSE [unlock(lock(b)) EXCEPT
                 !.pixelFormat = "RAW16",
                 !.rowStride = croppedWidth(b) * 2,
                 !.width = croppedWidth(b),
                 !.height = croppedHeight(b),
                 !.isCompressed = TRUE,
                 !.compressionType = "BITNZPACK_2",
                 !.dataWritten = TRUE,
                 !.validRange = << 0, offset >>]

\* cropAndCompress(buffer): the row vector is made after the lock is taken;
\* one row is encoded for every y in [ystart, yend).
cropAndCompress(b0) ==
    LET b == Called(b0, "cropAndCompress")
        ystart == verticalCrop(b)
        yend == b.height - ystart
        offset == Passes(ystart, yend, 1) * bitnzpack16(croppedWidth(b))
    IN  IF croppedWidth(b) < 0
           THEN Throws(lock(b))
        ELSE IF b.pixelFormat \notin { "RAW10", "RAW12", "RAW16" }
           THEN unlock(lock(b))
        ELSE [unlock(lock(b)) EXCEPT
                 !.pixelFormat = "RAW16",
                 !.rowStride = croppedWidth(b) * 2,
                 !.width = croppedWidth(b),
                 !.height = croppedHeight(b),
                 !.isCompressed = TRUE,
                 !.compressionType = "BITNZPACK_2",
                 !.dataWritten = TRUE,
                     !.validRange = << 0, offset >>]

\* Return value of cropAndBin_RAW10 / _RAW12 / _RAW16: the offset after the
\* last byte written.  Every pass of the y loop (step 4) puts out two binned
\* rows of binnedWidth samples, encoded or packed.
cropAndBin_Offset(b, ystart, yend, binnedWidth, doCompress) ==
    LET rowSize_2 == Div(binnedWidth, 2)
        rowBytes ==
            IF doCompress THEN bitnzpack16(binnedWidth)
            ELSE IF b.pixelFormat = "RAW10"
               THEN 5 * Passes(0, rowSize_2, 2)
               ELSE 3 * Passes(0, rowSize_2, 1)
    IN  Passes(ystart, yend, 4) * 2 * rowBytes

\* Variant of cropAndBin: isBinned is set before the format is looked at.
cropAndBin_MarksUnsupported(b0) ==
    LET b == Called(b0, "cropAndBin")
        ystart == verticalCrop(b)
        yend == b.height - ystart
        binnedWidth == Div(croppedWidth(b), 2)
        end == cropAndBin_Offset(b, ystart, yend, binnedWidth,
                                 mEnableCompression)
    IN  IF binnedWidth < 0
           THEN Throws(b)
        ELSE IF b.pixelFormat \notin { "RAW10", "RAW12", "RAW16" }
           THEN [unlock(lock(b)) EXCEPT !.isBinned = TRUE]
        ELSE IF mEnableCompression
           THEN [unlock(lock(b)) EXCEPT
                    !.width = binnedWidth,
                    !.height = Div(croppedHeight(b), 2),
                    !.isBinned = TRUE,
                    !.pixelFormat = "RAW16",
                    !.isCompressed = TRUE,
                    !.compressionType = "BITNZPACK_2",
                    !.rowStride = 2 * binnedWidth,
                    !.dataWritten = TRUE,
                     !.validRange = << 0, end >>]
        ELSE [unlock(lock(b)) EXCEPT
                 !.width = binnedWidth,
                 !.height = Div(croppedHeight(b), 2),
                 !.isBinned = TRUE,
                 !.rowStride = IF b.pixelFormat = "RAW10"
                                  THEN Div(10 * binnedWidth, 8)
                                  ELSE Div(12 * binnedWidth, 8),
                 !.isCompressed = FALSE,
                 !.compressionType = "UNCOMPRESSED",
                 !.pixelFormat = IF @ = "RAW16" THEN "RAW12" ELSE @,
                 !.dataWritten = TRUE,
                     !.validRange = << 0, end >>]

\* cropAndBin(buffer): the two row vectors are made before the lock is taken.
cropAndBin(b0) ==
    LET b == Called(b0, "cropAndBin")
        ystart == verticalCrop(b)
        yend == b.height - ystart
        binnedWidth == Div(croppedWidth(b), 2)
        end == cropAndBin_Offset(b, ystart, yend, binnedWidth,
                                 mEnableCompression)
    IN  IF binnedWidth < 0
           THEN Throws(b)
        ELSE IF b.pixelFormat \notin { "RAW10", "RAW12", "RAW16" }
           THEN unlock(lock(b))
        ELSE IF mEnableCompression
           THEN [unlock(lock(b)) EXCEPT
                    !.width = binnedWidth,
                    !.height = Div(croppedHeight(b), 2),
                    !.isBinned = TRUE,
                    !.pixelFormat = "RAW16",
                    !.isCompressed = TRUE,
                    !.compressionType = "BITNZPACK_2",
                    !.rowStride = 2 * binnedWidth,
                    !.dataWritten = TRUE,
                     !.validRange = << 0, end >>]
        ELSE [unlock(lock(b)) EXCEPT
                 !.width = binnedWidth,
                 !.height = Div(croppedHeight(b), 2),
                 !.isBinned = TRUE,
                 !.rowStride = IF b.pixelFormat = "RAW10"
                                  THEN Div(10 * binnedWidth, 8)
                                  ELSE Div(12 * binnedWidth, 8),
                 !.isCompressed = FALSE,
                 !.compressionType = "UNCOMPRESSED",
                 !.pixelFormat = IF @ = "RAW16" THEN "RAW12" ELSE @,
                 !.dataWritten = TRUE,
                     !.validRange = << 0, end >>]

\* processBuffer(buffer) on the buffer itself.
processBuffer_Buffer(b) ==
    CASE ProcessMode(mBin, mEnableCompression) = "cropAndBin" -> cropAndBin(b)
      [] ProcessMode(mBin, mEnableCompression) = "cropAndCompress" ->
             cropAndCompress(b)
      [] ProcessMode(mBin, mEnableCompression) = "crop" -> crop(b)

\* Stride of an untransformed row of the format.
NativeRowStride(pixelFormat, width) ==
    CASE pixelFormat = "RAW10" -> Div(10 * width, 8)
      [] pixelFormat = "RAW12" -> Div(12 * width, 8)
      [] pixelFormat = "RAW16" -> 2 * width
      [] OTHER -> width

\* A buffer as the capture hands it to add(): uncompressed, not binned,
\* unlocked, valid over all its rows; a worker has just dequeued it from the
\* unprocessed queue.  dataWritten tells whether a byte of the data was
\* written since.
CapturedBuffer(pixelFormat, width, height) ==
    [ stage |-> "dequeued",
      pixelFormat |-> pixelFormat,
      width |-> width,
      height |-> height,
      rowStride |-> NativeRowStride(pixelFormat, width),
      compressionType |-> "UNCOMPRESSED",
      isCompressed |-> FALSE,
      isBinned |-> FALSE,
      validRange |-> << 0, NativeRowStride(pixelFormat, width) * height >>,
      locked |-> FALSE,
      lockCount |-> 0,
      unlockCount |-> 0,
      calls |-> << >>,
      exception |-> "none",
      dataWritten |-> FALSE,
      captured |-> [ pixelFormat |-> pixelFormat, width |-> width,
                     height |-> height ] ]

\* A thread whose function is left by an exception ends the process.
AfterProcess(b, stage) ==
    [b EXCEPT !.stage = IF b.exception = "none" THEN stage ELSE "terminated"]

\* doProcess, the loop body: processBuffer(buffer);
\* mReadyBuffers.enqueue(buffer)
doProcess_Buffer ==
    /\ buffer.stage = "dequeued"
    /\ buffer' = AfterProcess(processBuffer_Buffer(buffer), "ready")
    /\ UNCHANGED << pipelineVars, configVars >>

\* doStream, the body of the unprocessed flush loop: processBuffer(buffer);
\* container->add(*buffer, true)
doStream_FlushBuffer ==
    /\ buffer.stage = "dequeued"
    /\ buffer' = AfterProcess(processBuffer_Buffer(buffer), "written")
    /\ UNCHANGED << pipelineVars, configVars >>

\* doStream, the loop body on a buffer of the ready queue:
\* container->add(*buffer, true)
doStream_AddBuffer ==
    /\ buffer.stage = "ready"
    /\ buffer' = [buffer EXCEPT !.stage = "written"]
    /\ UNCHANGED << pipelineVars, configVars >>

\* ------------------------------------------------------------------------
\* The bytes of a buffer: readers, row codec, packers
\* ------------------------------------------------------------------------
\* data is the sequence of the buffer's bytes, data[k + 1] the byte at offset
\* k.  A byte the row codec has written is Encoded: its value is the codec's
\* and not the image's, and so is every sample read from it.
Encoded == -1

\* RAW10(data, x, y, stride)
RAW10(data, x, y, stride) ==
    LET X == 4 * (x \div 4)
        xoffset == (y * stride) + ((10 * X) \div 8)
        p == x - X
        shift == 2 * p
        hi == data[xoffset + p + 1]
        lo == data[xoffset + 4 + 1]
    IN  IF hi = Encoded \/ lo = Encoded THEN Encoded
        ELSE (hi * 4) + ((lo \div (2^shift)) % 4)

\* RAW12(data, x, y, stride)
RAW12(data, x, y, stride) ==
    LET X == 2 * (x \div 2)
        xoffset == (y * stride) + ((12 * X) \div 8)
        p == x - X
        shift == 4 * p
        hi == data[xoffset + p + 1]
        lo == data[xoffset + 2 + 1]
    IN  IF hi = Encoded \/ lo = Encoded THEN Encoded
        ELSE (hi * 16) + ((lo \div (2^shift)) % 16)

\* RAW16(data, x, y, stride)
RAW16(data, x, y, stride) ==
    LET offset == (y * stride) + (x * 2)
        lo == data[offset + 1]
        hi == data[offset + 1 + 1]
    IN  IF hi = Encoded \/ lo = Encoded THEN Encoded
        ELSE lo + (hi * 256)

\* The reader the transformer uses for the format.
ReadPixel(pixelFormat, data, x, y, stride) ==
    CASE pixelFormat = "RAW10" -> RAW10(data, x, y, stride)
      [] pixelFormat = "RAW12" -> RAW12(data, x, y, stride)
      [] pixelFormat = "RAW16" -> RAW16(data, x, y, stride)

\* Bits of the largest sample of a row; a sample read from encoded bytes can
\* be any 16-bit value.
RowBits(row) ==
    IF \E i \in DOMAIN row : row[i] = Encoded THEN 16
    ELSE CHOOSE n \in 0 .. 16 :
             /\ \A i \in DOMAIN row : row[i] < 2^n
             /\ n > 0 => \E i \in DOMAIN row : row[i] >= 2^(n - 1)

\* Bytes bitnzpack16 writes for the row: one byte that gives the bit width of
\* the row's samples, then the samples packed at that width.
EncodedLength(row) == 1 + (((Len(row) * RowBits(row)) + 7) \div 8)

\* data with the bytes from offset on replaced: the byte at offset + j
\* becomes bytes[j + 1].  A write past the end of the data is left out.
WriteBytes(data, offset, bytes) ==
    LET n == IF Len(bytes) <= Len(data) - offset
                THEN Len(bytes) ELSE Len(data) - offset
    IN  IF n <= 0 THEN data
        ELSE SubSeq(data, 1, offset) \o SubSeq(bytes, 1, n)
                 \o SubSeq(data, offset + n + 1, Len(data))

\* The loops of cropAndCompress over the rows y .. yend - 1, from the state
\* st = [data, offset, rows] the earlier rows have left: the row vector is
\* filled from the data as it is now, then encoded into the data at offset.
RECURSIVE cropAndCompress_Rows(_, _, _)
cropAndCompress_Rows(b, y, st) ==
    LET xstart == horizontalCrop(b)
        yend == b.height - verticalCrop(b)
        croppedWidth_2 == croppedWidth(b) \div 2
        row == [i \in 1 .. croppedWidth(b) |->
                   IF i <= croppedWidth_2
                      THEN ReadPixel(b.pixelFormat, st.data,
                                     xstart + 2 * (i - 1), y, b.rowStride)
                      ELSE ReadPixel(b.pixelFormat, st.data,
                                     xstart + 2 * (i - 1 - croppedWidth_2) + 1,
                                     y, b.rowStride)]
        writtenBytes == EncodedLength(row)
    IN  IF y >= yend THEN st
        ELSE cropAndCompress_Rows(b, y + 1,
                 [ data |-> WriteBytes(st.data, st.offset,
                                       [j \in 1 .. writtenBytes |-> Encoded]),
                   offset |-> st.offset + writtenBytes,
                   rows |-> Append(st.rows, row) ])

\* The row loop of crop for RAW10 and RAW12: memmove of croppedRowStride
\* bytes of row y to the place of row y - ystart.
RECURSIVE crop_Rows(_, _, _)
crop_Rows(b, y, data) ==
    LET ystart == verticalCrop(b)
        yend == b.height - ystart
        croppedRowStride ==
            IF b.pixelFormat = "RAW10" THEN Div(10 * croppedWidth(b), 8)
            ELSE Div(12 * croppedWidth(b), 8)
        srcOffset == b.rowStride * y
        dstOffset == croppedRowStride * (y - ystart)
        xstart == Div(10 * horizontalCrop(b), 8)
    IN  IF y >= yend THEN data
        ELSE crop_Rows(b, y + 1,
                 WriteBytes(data, dstOffset,
                            [j \in 1 .. croppedRowStride |->
                                data[srcOffset + xstart + j]]))

\* The three bytes crop and cropAndBin write for two samples p0, p1 of a
\* RAW12 row.
PackRAW12(p0, p1) ==
    << (p0 \div 16) % 256, (p1 \div 16) % 256, (p0 % 16) + (16 * (p1 % 16)) >>

\* The pixel-pair loop of crop for RAW16, from the state st = [data,
\* dstOffset] the earlier pairs have left: two samples are read from the
\* data as it is now and three bytes written at dstOffset.
RECURSIVE crop_Pairs(_, _)
crop_Pairs(b, st) ==
    LET pairsPerRow == croppedWidth(b) \div 2
        n == st.dstOffset \div 3
        y == verticalCrop(b) + (n \div pairsPerRow)
        x == horizontalCrop(b) + (2 * (n % pairsPerRow))
        p0 == RAW16(st.data, x, y, b.rowStride)
        p1 == RAW16(st.data, x + 1, y, b.rowStride)
    IN  IF pairsPerRow = 0 \/ y >= b.height - verticalCrop(b) THEN st.data
        ELSE crop_Pairs(b,
                 [ data |-> WriteBytes(st.data, st.dstOffset,
                                       PackRAW12(p0, p1)),
                   dstOffset |-> st.dstOffset + 3 ])

\* The uncompressed branch of cropAndBin_RAW10 for one row vector: rowSize_2
\* is half the row, every pass of the loop takes i up by 2 and writes five
\* bytes.
PackRAW10(row0) ==
    LET rowSize_2 == Len(row0) \div 2
    IN  [k \in 1 .. 5 * Passes(0, rowSize_2, 2) |->
            LET i == 2 * ((k - 1) \div 5)
                m == (k - 1) % 5
            IN  CASE m = 0 -> (row0[i + 1] \div 4) % 256
                  [] m = 1 -> (row0[i + rowSize_2 + 1] \div 4) % 256
                  [] m = 2 -> (row0[i + 1 + 1] \div 4) % 256
                  [] m = 3 -> (row0[i + rowSize_2 + 1 + 1] \div 4) % 256
                  [] m = 4 -> (row0[i + 1] % 4)
                              + (4 * (row0[i + 1 + 1] % 4))
                              + (16 * (row0[i + 2 + 1] % 4))
                              + (64 * (row0[i + 3 + 1] % 4))]

\* The uncompressed branch of cropAndBin_RAW12 and cropAndBin_RAW16 for one
\* row vector: three bytes for every i below rowSize_2.
PackRows12(row0) ==
    LET rowSize_2 == Len(row0) \div 2
    IN  [k \in 1 .. 3 * rowSize_2 |->
            LET i == (k - 1) \div 3
            IN  PackRAW12(row0[i + 1], row0[i + rowSize_2 + 1])[((k - 1) % 3) + 1]]

\* A buffer whose bytes are modelled, as the capture hands it to add().
PixelBuffer(pixelFormat, width, height, pattern) ==
    LET size == NativeRowStride(pixelFormat, width) * height
        bytes == [k \in 1 .. size |->
                     LET v == ((pattern[1] * (k - 1)) + pattern[2]) % 256
                     IN  IF pixelFormat = "RAW16" /\ k % 2 = 0
                            THEN v % 16 ELSE v]
    IN  CapturedBuffer(pixelFormat, width, height)
            @@ [ data |-> bytes, original |-> bytes, rows |-> << >> ]

\* A row vector as the binning kernel of cropAndBin leaves it, holding
\* samples of the format's range, and the packed bytes once it is packed.
RowBuffer(pixelFormat, length, pattern) ==
    [ stage |-> "binned",
      pixelFormat |-> pixelFormat,
      row0 |-> [i \in 1 .. length |->
                   ((pattern[1] * (i - 1)) + pattern[2])
                       % (IF pixelFormat = "RAW10" THEN 1024 ELSE 4096)],
      data |-> << >> ]

\* processBuffer(buffer) on a buffer whose bytes are modelled: the fields as
\* the operation sets them, the data as its loops leave it.
processBuffer_Pixels(b) ==
    IF ProcessMode(mBin, mEnableCompression) = "cropAndCompress"
       THEN LET st == cropAndCompress_Rows(b, verticalCrop(b),
                          [data |-> b.data, offset |-> 0, rows |-> << >>])
            IN  [cropAndCompress(b) EXCEPT
                    !.data = st.data,
                    !.rows = st.rows,
                    !.validRange = << 0, st.offset >>]
    ELSE IF mCropWidth = 0 /\ mCropHeight = 0 /\ b.pixelFormat # "RAW16"
       THEN crop(b)
    ELSE [crop(b) EXCEPT
             !.data = IF b.pixelFormat = "RAW16"
                         THEN crop_Pairs(b, [data |-> b.data, dstOffset |-> 0])
                         ELSE crop_Rows(b, verticalCrop(b), b.data)]

\* doProcess, the loop body, on a buffer whose bytes are modelled.
doProcess_Pixels ==
    /\ buffer.stage = "dequeued"
    /\ buffer' = AfterProcess(processBuffer_Pixels(buffer), "ready")
    /\ UNCHANGED << pipelineVars, configVars >>

\* cropAndBin_RAW10 / _RAW12, doCompress false: the row vector is packed
\* into the data.
cropAndBin_Pack ==
    /\ buffer.stage = "binned"
    /\ buffer' = [buffer EXCEPT
                     !.stage = "packed",
                     !.data = IF buffer.pixelFormat = "RAW10"
                                 THEN PackRAW10(buffer.row0)
                                 ELSE PackRows12(buffer.row0)]
    /\ UNCHANGED << pipelineVars, configVars >>

\* ------------------------------------------------------------------------
\* The binning kernel of cropAndBin_RAW10 / _RAW12 / _RAW16
\* ------------------------------------------------------------------------
\* (width, height) of the buffers given to the binning kernel: a height of
\* whole 4-row blocks and one whose last block has two rows.
BinSizes == { <<16, 8>>, <<16, 6>> }

\* A value stored into a uint16_t.
uint16(v) == v % 65536

\* The offsets of the bytes the reader of the format reads for pixel (x, y).
PixelBytes(pixelFormat, x, y, stride) ==
    CASE pixelFormat = "RAW10" ->
             LET X == 4 * (x \div 4)
                 xoffset == (y * stride) + ((10 * X) \div 8)
             IN  { xoffset + (x - X), xoffset + 4 }
      [] pixelFormat = "RAW12" ->
             LET X == 2 * (x \div 2)
                 xoffset == (y * stride) + ((12 * X) \div 8)
             IN  { xoffset + (x - X), xoffset + 2 }
      [] pixelFormat = "RAW16" ->
             { (y * stride) + (x * 2), (y * stride) + (x * 2) + 1 }

\* The pixels p0 .. p8 the kernel reads for (ix, iy): columns ix_m2, ix,
\* ix_p2 of the rows iy_m2, iy, iy_p2.
Neighbours(b, ix, iy) ==
    LET ix_m2 == Max(0, ix - 2)
        ix_p2 == (ix + 2) % b.width
        iy_m2 == Max(0, iy - 2)
        iy_p2 == (iy + 2) % b.height
    IN  << << ix_m2, iy_m2 >>, << ix, iy_m2 >>, << ix_p2, iy_m2 >>,
           << ix_m2, iy >>,    << ix, iy >>,    << ix_p2, iy >>,
           << ix_m2, iy_p2 >>, << ix, iy_p2 >>, << ix_p2, iy_p2 >> >>

\* The left shifts the kernel applies to p0 .. p8.
KernelShifts == << 0, 1, 0, 1, 2, 1, 0, 1, 0 >>

\* out: every p is a uint16_t that holds the shifted sample, the sum is an
\* int, and the shifted sum is stored into a uint16_t.
cropAndBin_Out(b, data, ix, iy) ==
    LET n == Neighbours(b, ix, iy)
        p == [k \in 1 .. 9 |->
                 uint16(ReadPixel(b.pixelFormat, data, n[k][1], n[k][2],
                                  b.rowStride) * (2^KernelShifts[k]))]
    IN  uint16((p[1] + p[2] + p[3] + p[4] + p[5] + p[6] + p[7] + p[8] + p[9])
                   \div 16)

\* The row vector (row0 for iy = y, row1 for iy = y + 1) after the x loop of
\* the block at y: pass number X of the loop stores the sample of column
\* x at X and that of column x + 1 at X + (binnedWidth >> 1).
cropAndBin_Row(b, data, iy) ==
    LET xstart == horizontalCrop(b)
        xend == b.width - horizontalCrop(b)
        binnedWidth == Div(croppedWidth(b), 2)
        half == binnedWidth \div 2
        passes == Passes(xstart, xend, 4)
    IN  [j \in 1 .. binnedWidth |->
            IF j - 1 < passes
               THEN cropAndBin_Out(b, data, xstart + (4 * (j - 1)), iy)
               ELSE cropAndBin_Out(b, data,
                                   xstart + (4 * (j - 1 - half)) + 1, iy)]

\* The pixels the kernel reads in the block at y.
BlockReads(b, y) ==
    LET xstart == horizontalCrop(b)
        xend == b.width - horizontalCrop(b)
    IN  UNION { Range(Neighbours(b, xstart + (4 * X) + dx, y + dy)) :
                    X \in 0 .. Passes(xstart, xend, 4) - 1,
                    dx \in { 0, 1 }, dy \in { 0, 1 } }

\* The y loop of cropAndBin_RAW10 / _RAW12 / _RAW16 with doCompress false,
\* from the state st = [data, offset, rows, y, stale] the earlier blocks
\* have left: both row vectors are filled from the data as it is now, then
\* packed into the data at offset.  stale collects the pixels read from
\* bytes below offset, which earlier blocks have written.
RECURSIVE cropAndBin_Blocks(_, _)
cropAndBin_Blocks(b, st) ==
    LET yend == b.height - verticalCrop(b)
        row0 == cropAndBin_Row(b, st.data, st.y)
        row1 == cropAndBin_Row(b, st.data, st.y + 1)
        bytes == IF b.pixelFormat = "RAW10"
                    THEN PackRAW10(row0) \o PackRAW10(row1)
                    ELSE PackRows12(row0) \o PackRows12(row1)
        overwritten ==
            { q \in BlockReads(b, st.y) :
                  \E o \in PixelBytes(b.pixelFormat, q[1], q[2], b.rowStride) :
                      o < st.offset }
    IN  IF st.y >= yend THEN st
        ELSE cropAndBin_Blocks(b,
                 [ data |-> WriteBytes(st.data, st.offset, bytes),
                   offset |-> st.offset + Len(bytes),
                   rows |-> st.rows \o << row0, row1 >>,
                   y |-> st.y + 4,
                   stale |-> st.stale \cup overwritten ])

\* A buffer whose bytes are modelled and hold samples of the format's whole
\* range, as the capture hands it to add(): byte k is (p[1] * k + p[2]) mod
\* 256.
FullRangeBuffer(pixelFormat, width, height, pattern) ==
    LET size == NativeRowStride(pixelFormat, width) * height
        bytes == [k \in 1 .. size |->
                     ((pattern[1] * (k - 1)) + pattern[2]) % 256]
    IN  CapturedBuffer(pixelFormat, width, height)
            @@ [ data |-> bytes, original |-> bytes, rows |-> << >>,
                 stale |-> {} ]

\* processBuffer(buffer) with compression off on a buffer whose bytes are
\* modelled: cropAndBin with the fields as it sets them and the data as its
\* loops leave it, or crop.
processBuffer_Bytes(b) ==
    IF ProcessMode(mBin, mEnableCompression) = "cropAndBin"
       THEN LET st == cropAndBin_Blocks(b,
                          [ data |-> b.data, offset |-> 0, rows |-> << >>,
                            y |-> verticalCrop(b), stale |-> {} ])
            IN  [cropAndBin(b) EXCEPT
                    !.data = st.data,
                    !.rows = st.rows,
                    !.stale = st.stale,
                    !.validRange = << 0, st.offset >>]
       ELSE processBuffer_Pixels(b)

\* doProcess, the loop body, on a buffer of whole-range samples.
doProcess_Bytes ==
    /\ buffer.stage = "dequeued"
    /\ buffer' = AfterProcess(processBuffer_Bytes(buffer), "ready")
    /\ UNCHANGED << pipelineVars, configVars >>

\* ------------------------------------------------------------------------
\* The system
\* ------------------------------------------------------------------------
\* in: the inputs of a specification, a record of
\*   maxFrames, maxSessions   how many add() and spawning start() calls
\*   fdCounts, numThreads, compression, audio    arguments of start()
\*   crops, bins              arguments of setCropAmount() and setBin()
Producer(in) ==
    \/ add_Enqueue(in.maxFrames)
    \/ add_Count

Caller(in) ==
    \/ \E c \in in.crops : setCropAmount(c[1], c[2])
    \/ \E b \in in.bins : setBin(b)
    \/ stop
    \/ start_Stop(in.maxSessions)
    \/ \E o \in AudioWriteOutcomes : stop_Audio(o)
    \/ stop_JoinProcess
    \/ stop_JoinIo
    \/ \E n \in in.fdCounts : start_NoFds(n)
    \/ \E n \in in.fdCounts, c \in in.compression, a \in in.audio :
           start_Begin(n, c, a[1], a[2])
    \/ start_SpawnIo
    \/ \E n \in in.numThreads : start_ProcessThreads(n)
    \/ start_SpawnProcess
    \/ start_Return

TransformWorkers ==
    \/ \E t \in DOMAIN procT : doProcess_Check(t)
    \/ \E t \in DOMAIN procT : doProcess_Wait(t)
    \/ \E t \in DOMAIN procT : doProcess_Process(t)

WriterWorkers ==
    \/ \E t \in DOMAIN ioT : doStream_Check(t)
    \/ \E t \in DOMAIN ioT : doStream_Wait(t)
    \/ \E t \in DOMAIN ioT : doStream_Write(t)
    \/ \E t \in DOMAIN ioT : doStream_FlushReady(t)
    \/ \E t \in DOMAIN ioT : doStream_FlushWrite(t)
    \/ \E t \in DOMAIN ioT : doStream_FlushUnprocessed(t)
    \/ \E t \in DOMAIN ioT : doStream_FlushProcess(t)
    \/ \E t \in DOMAIN ioT : doStream_Commit(t)

Workers ==
    \/ TransformWorkers
    \/ WriterWorkers

System(in) ==
    \/ Producer(in)
    \/ Caller(in)
    \/ Workers

\* One session of the pipeline with several workers of each kind; the
\* configuration stays as constructed.
PipelineInputs ==
    [ maxFrames |-> MaxFrames,
      maxSessions |-> MaxSessions,
      fdCounts |-> 0 .. MaxWriters,
      numThreads |-> (-1) .. MaxThreads,
      compression |-> {FALSE},
      audio |-> { <<FALSE, -1>> },
      crops |-> { <<0, 0>> },
      bins |-> {FALSE} ]

Next == System(PipelineInputs)

Spec == Init /\ [][Next]_vars

\* Several sessions one after the other, one worker of each kind, with
\* setCropAmount() calls between and during the sessions.
RestartInputs ==
    [ maxFrames |-> RestartFrames,
      maxSessions |-> RestartSessions,
      fdCounts |-> 0 .. RestartWriters,
      numThreads |-> (-1) .. RestartThreads,
      compression |-> {FALSE},
      audio |-> { <<FALSE, -1>> },
      crops |-> CropInputs,
      bins |-> {FALSE} ]

NextRestart == System(RestartInputs)

SpecRestart == Init /\ [][NextRestart]_vars

\* Several sessions with and without an audio interface, one worker of each
\* kind.
AudioSpecInputs ==
    [ maxFrames |-> AudioFrames,
      maxSessions |-> AudioSessions,
      fdCounts |-> 0 .. AudioWriters,
      numThreads |-> (-1) .. AudioThreads,
      compression |-> {FALSE},
      audio |-> AudioInputs,
      crops |-> { <<0, 0>> },
      bins |-> {FALSE} ]

NextAudio == System(AudioSpecInputs)

SpecAudio == Init /\ [][NextAudio]_vars

\* One session under the scheduling the threads get: a worker thread that can
\* take a step is not delayed forever, and the calling thread goes on with the
\* stop() it has entered.
StopInputs ==
    [ maxFrames |-> StopFrames,
      maxSessions |-> StopSessions,
      fdCounts |-> 0 .. StopWriters,
      numThreads |-> (-1) .. StopThreads,
      compression |-> {FALSE},
      audio |-> { <<FALSE, -1>> },
      crops |-> { <<0, 0>> },
      bins |-> {FALSE} ]

NextStop == System(StopInputs)

StopSteps ==
    \/ \E o \in AudioWriteOutcomes : stop_Audio(o)
    \/ stop_JoinProcess
    \/ stop_JoinIo

SpecStop ==
    /\ Init
    /\ [][NextStop]_vars
    /\ WF_vars(TransformWorkers)
    /\ WF_vars(WriterWorkers)
    /\ WF_vars(StopSteps)

\* The steps of one transform worker and of one writer worker.
TransformWorker(t) ==
    /\ t \in DOMAIN procT
    /\ \/ doProcess_Check(t)
       \/ doProcess_Wait(t)
       \/ doProcess_Process(t)

WriterWorker(t) ==
    /\ t \in DOMAIN ioT
    /\ \/ doStream_Check(t)
       \/ doStream_Wait(t)
       \/ doStream_Write(t)
       \/ doStream_FlushReady(t)
       \/ doStream_FlushWrite(t)
       \/ doStream_FlushUnprocessed(t)
       \/ doStream_FlushProcess(t)
       \/ doStream_Commit(t)

\* The ids the threads of the session get.
TransformWorkerIds == (1 .. StopSessions) \X (1 .. StopThreads)
WriterWorkerIds == (1 .. StopSessions) \X (1 .. StopWriters)

\* One session in which every single worker thread that can take a step is
\* not delayed forever: the timed waits of the loops return, and the
\* container's add() returns.  The calling thread and the capture are free to
\* call or not.
SpecLive ==
    /\ Init
    /\ [][NextStop]_vars
    /\ \A t \in TransformWorkerIds : WF_vars(TransformWorker(t))
    /\ \A t \in WriterWorkerIds : WF_vars(WriterWorker(t))

\* One session with one worker of each kind, started with or without
\* compression, and setBin() calls before, during and after it.
ConfigInputs ==
    [ maxFrames |-> ConfigFrames,
      maxSessions |-> ConfigSessions,
      fdCounts |-> 0 .. ConfigWriters,
      numThreads |-> (-1) .. ConfigThreads,
      compression |-> BOOLEAN,
      audio |-> { <<FALSE, -1>> },
      crops |-> { <<0, 0>> },
      bins |-> BOOLEAN ]

NextConfig == System(ConfigInputs)

SpecConfig == Init /\ [][NextConfig]_vars

\* One session with two writers whose container writes can fail.
WriteFailInputs ==
    [ maxFrames |-> FailFrames,
      maxSessions |-> FailSessions,
      fdCounts |-> 0 .. FailWriters,
      numThreads |-> (-1) .. FailThreads,
      compression |-> {FALSE},
      audio |-> { <<FALSE, -1>> },
      crops |-> { <<0, 0>> },
      bins |-> {FALSE} ]

WriteFailures ==
    \/ \E t \in DOMAIN ioT : doStream_AddFails(t)
    \/ \E t \in DOMAIN ioT : doStream_AddThrows(t)

NextWriteFail ==
    \/ System(WriteFailInputs)
    \/ WriteFailures

SpecWriteFail == Init /\ [][NextWriteFail]_vars

\* The frame transformer on one buffer: every format, size and crop of the
\* inputs under every setting of mBin and mEnableCompression, on the
\* transform worker's path and on the writer's flush path.  The
\* configuration is one that setCropAmount(), setBin() and start() have
\* left; the transformer reads nothing else of the streamer, which stays as
\* constructed.
InitTransform ==
    /\ mRunning = FALSE
    /\ mUnprocessedBuffers = << >>
    /\ mReadyBuffers = << >>
    /\ mWrittenFrames = 0
    /\ mAcceptedFrames = 0
    /\ mWrittenBytes = 0
    /\ mCropWidth \in CropPercents
    /\ mCropHeight \in CropPercents
    /\ mBin \in BOOLEAN
    /\ mEnableCompression \in BOOLEAN
    /\ mAudioInterface = FALSE
    /\ mAudioFd = -1
    /\ mProcessThreads = {}
    /\ mIoThreads = {}
    /\ procT = << >>
    /\ ioT = << >>
    /\ container = << >>
    /\ audio = [starts |-> 0, stops |-> 0, wavWrites |-> 0]
    /\ ctl = IdleCaller
    /\ addPc = "idle"
    /\ frames = << >>
    /\ session = 0
    /\ \E f \in PixelFormats, s \in BufferSizes :
          buffer = CapturedBuffer(f, s[1], s[2])

NextTransform ==
    \/ doProcess_Buffer
    \/ doStream_FlushBuffer
    \/ doStream_AddBuffer

SpecTransform == InitTransform /\ [][NextTransform]_vars

\* The frame transformer on the bytes of one small buffer, and the packers
\* of cropAndBin on one row vector: every format, size, content and crop of
\* the inputs, with and without compression.
InitPixels ==
    /\ mRunning = FALSE
    /\ mUnprocessedBuffers = << >>
    /\ mReadyBuffers = << >>
    /\ mWrittenFrames = 0
    /\ mAcceptedFrames = 0
    /\ mWrittenBytes = 0
    /\ mCropWidth \in PixelCrops
    /\ mCropHeight \in PixelCrops
    /\ mBin = FALSE
    /\ mEnableCompression \in BOOLEAN
    /\ mAudioInterface = FALSE
    /\ mAudioFd = -1
    /\ mProcessThreads = {}
    /\ mIoThreads = {}
    /\ procT = << >>
    /\ ioT = << >>
    /\ container = << >>
    /\ audio = [starts |-> 0, stops |-> 0, wavWrites |-> 0]
    /\ ctl = IdleCaller
    /\ addPc = "idle"
    /\ frames = << >>
    /\ session = 0
    /\ \/ \E f \in { "RAW10", "RAW12", "RAW16" }, s \in PixelSizes,
             p \in BytePatterns :
             buffer = PixelBuffer(f, s[1], s[2], p)
       \/ \E f \in { "RAW10", "RAW12" }, n \in RowLengths,
             p \in SamplePatterns :
             buffer = RowBuffer(f, n, p)

NextPixels ==
    \/ doProcess_Pixels
    \/ cropAndBin_Pack

SpecPixels == InitPixels /\ [][NextPixels]_vars

\* The frame transformer with compression off on buffers of whole-range
\* samples: binning and crop of every RAW format, with whole and partial
\* blocks, with and without a crop.
InitBin ==
    /\ mRunning = FALSE
    /\ mUnprocessedBuffers = << >>
    /\ mReadyBuffers = << >>
    /\ mWrittenFrames = 0
    /\ mAcceptedFrames = 0
    /\ mWrittenBytes = 0
    /\ mCropWidth \in PixelCrops
    /\ mCropHeight \in PixelCrops
    /\ mBin \in BOOLEAN
    /\ mEnableCompression = FALSE
    /\ mAudioInterface = FALSE
    /\ mAudioFd = -1
    /\ mProcessThreads = {}
    /\ mIoThreads = {}
    /\ procT = << >>
    /\ ioT = << >>
    /\ container = << >>
    /\ audio = [starts |-> 0, stops |-> 0, wavWrites |-> 0]
    /\ ctl = IdleCaller
    /\ addPc = "idle"
    /\ frames = << >>
    /\ session = 0
    /\ \E f \in { "RAW10", "RAW12", "RAW16" }, s \in BinSizes,
          p \in BytePatterns :
          buffer = FullRangeBuffer(f, s[1], s[2], p)

NextBin ==
    \/ doProcess_Bytes
    \/ doStream_AddBuffer

SpecBin == InitBin /\ [][NextBin]_vars

\* ------------------------------------------------------------------------
\* Properties
\* ------------------------------------------------------------------------
\* The calling thread is inside stop().
InStop == ctl.pc \in { "stop_audio", "stop_joinProcess", "stop_joinIo" }

\* A stop() has returned and no start() has set mRunning since.
NoSessionOpen ==
    \/ ctl.pc = "start_check"
    \/ ctl.pc = "idle" /\ ~mRunning

\* Steps of the calling thread.
StopReturns == ctl.pc = "stop_joinIo" /\ ctl'.pc # "stop_joinIo"
StartResets == ctl.pc = "start_check" /\ ctl'.pc = "start_spawnIo"
StartReturnsNoFds == ctl.pc = "start_check" /\ ctl'.pc = "idle"
StartReturns == ctl.pc = "start_spawnProcess" /\ ctl'.pc = "idle"

\* Steps of the capture producer.
AddEnqueues == addPc = "idle" /\ addPc' = "count"
AddCounts == addPc = "count" /\ addPc' = "idle"

\* Frames and bytes in the containers of session s.
SessionWriters(s) == { t \in DOMAIN container : t[1] = s }

WrittenIn(s) ==
    LET n[S \in SUBSET SessionWriters(s)] ==
            IF S = {} THEN 0
            ELSE LET t == CHOOSE x \in S : TRUE
                 IN  Len(container[t].frames) + n[S \ {t}]
    IN  n[SessionWriters(s)]

\* C1: if every frame was passed to add() between start() and stop(), then
\* once stop() has returned every frame has been processed and written to
\* exactly one container and both queues are empty.
C1_FrameConservation ==
    ( /\ ctl.pc = "idle"
      /\ ~mRunning
      /\ session > 0
      /\ addPc = "idle"
      /\ \A f \in FrameIds : frames[f].inSession )
    => /\ mUnprocessedBuffers = << >>
       /\ mReadyBuffers = << >>
       /\ \A f \in FrameIds : frames[f].processed > 0 /\ WriteCount(f) = 1
       /\ WrittenIn(session) = Len(frames)

\* C2: no frame is passed to container add() more than once, over all
\* containers, and only frames that were passed to add() are written.
C2_NoDuplicates ==
    /\ \A f \in FrameIds : WriteCount(f) <= 1
    /\ \A t \in DOMAIN container : Range(container[t].frames) \subseteq FrameIds

\* C2 witness: two writers of one session have each written a frame.
C2_Witness ==
    \E t, u \in DOMAIN container :
        /\ t # u
        /\ container[t].frames # << >>
        /\ container[u].frames # << >>

\* C3: a writer commits its container exactly once, when it ends, and once
\* stop() has returned every container created so far is committed.
C3_Sealing ==
    /\ \A t \in DOMAIN container :
          /\ container[t].commits <= 1
          /\ (container[t].commits = 1) <=> (ioT[t].pc = "done")
    /\ NoSessionOpen => \A t \in DOMAIN container : container[t].commits = 1

\* C3 witness: the second session has been stopped and its container, which
\* holds a frame, is committed.
C3_Witness ==
    /\ NoSessionOpen
    /\ \E t \in DOMAIN container :
          /\ t[1] = 2
          /\ container[t].frames # << >>
          /\ container[t].commits = 1

\* C4: a stop() that has been entered returns, and when it returns mRunning
\* is false, both thread vectors are empty and every worker thread has left
\* its function.
C4_StopTerminates ==
    /\ InStop ~> ~InStop
    /\ [][StopReturns =>
             /\ ~mRunning'
             /\ mProcessThreads' = {}
             /\ mIoThreads' = {}
             /\ \A t \in DOMAIN procT : procT'[t].pc = "done"
             /\ \A t \in DOMAIN ioT : ioT'[t].pc = "done"]_vars

\* C4 witness: stop() was entered while the session ran, has returned, and
\* the workers had taken a frame through the pipeline.
C4_Witness ==
    /\ ctl.pc = "idle"
    /\ ~mRunning
    /\ \E t \in DOMAIN procT : procT[t].pc = "done"
    /\ \E t \in DOMAIN container : container[t].frames # << >>

\* C5: every step of a stop() that was entered with mRunning false leaves
\* everything but the caller's place in the code unchanged, and the call
\* leaves the caller as it was.
C5_StopIdempotent ==
    [][ /\ (ctl.pc = "idle" /\ InStop' /\ ~mRunning)
            => UNCHANGED << mRunning, queueVars, counterVars, configVars,
                            audioVars, threadVars, session, addPc, frames >>
        /\ (InStop /\ ~ctl.wasRunning /\ ctl' # ctl)
            => /\ UNCHANGED << mRunning, queueVars, counterVars, configVars,
                               audioVars, threadVars, session, addPc,
                               frames >>
               /\ (ctl.op = "stop" /\ ~InStop') => ctl' = IdleCaller ]_vars

\* C5 witness: a stop() called after a session with audio was stopped is
\* about to return; the session wrote its audio and a frame.
C5_Witness ==
    /\ ctl.pc = "stop_joinIo"
    /\ ctl.op = "stop"
    /\ ~ctl.wasRunning
    /\ session > 0
    /\ audio.stops > 0
    /\ audio.wavWrites > 0
    /\ \E t \in DOMAIN container : container[t].frames # << >>

\* C6: a worker that has not ended belongs to the session started last, and
\* the containers of every earlier session are committed; so no worker or
\* open container of an earlier session exists beside those of a new one.
C6_SessionsDoNotOverlap ==
    /\ \A t \in DOMAIN procT : procT[t].pc # "done" => t[1] = session
    /\ \A t \in DOMAIN ioT : ioT[t].pc # "done" => t[1] = session
    /\ \A t \in DOMAIN container :
          t[1] < session => container[t].commits = 1

\* C6 witness: workers of the second session are running and a container of
\* the first session holds a frame.
C6_Witness ==
    /\ session = 2
    /\ \E t \in DOMAIN procT : t[1] = 2 /\ procT[t].pc # "done"
    /\ \E t \in DOMAIN ioT : t[1] = 2 /\ ioT[t].pc # "done"
    /\ \E t \in DOMAIN container : t[1] = 1 /\ container[t].frames # << >>

C8_InvalidConfigRejected ==
    \A f \in FrameIds :
        frames[f].processed > 0 =>
            /\ frames[f].crop[1] \in 0 .. 100
            /\ frames[f].crop[2] \in 0 .. 100

\* C9: add() is possible in every state in which the producer is not inside
\* it; its first step appends exactly the new frame to the unprocessed queue,
\* its second step adds 1 to mAcceptedFrames, and neither changes anything
\* else.
C9_AddEffect ==
    /\ [](addPc = "idle" /\ Len(frames) < MaxFrames
             => ENABLED add_Enqueue(MaxFrames))
    /\ [][ /\ AddEnqueues =>
                 /\ mUnprocessedBuffers' =
                        Append(mUnprocessedBuffers, Len(frames) + 1)
                 /\ Len(frames') = Len(frames) + 1
                 /\ \A f \in FrameIds : frames'[f] = frames[f]
                 /\ UNCHANGED << mRunning, mReadyBuffers, counterVars,
                                 configVars, audioVars, threadVars,
                                 callerVars >>
           /\ AddCounts =>
                 /\ mAcceptedFrames' = mAcceptedFrames + 1
                 /\ UNCHANGED << mRunning, queueVars, mWrittenFrames,
                                 mWrittenBytes, configVars, audioVars,
                                 threadVars, callerVars, frames >> ]_vars

\* C9 witness: add() has completed for a frame passed while the streamer was
\* not running; the frame is in the unprocessed queue and was counted.
C9_Witness ==
    /\ addPc = "idle"
    /\ ~mRunning
    /\ mAcceptedFrames > 0
    /\ \E i \in 1 .. Len(mUnprocessedBuffers) :
          ~frames[mUnprocessedBuffers[i]].inSession

\* C10: mCropWidth and mCropHeight change only in steps taken while mRunning
\* is false, and all frames processed by the workers of one session were
\* cropped with the same cropWidth and cropHeight.
C10_CropFixedWhileRunning ==
    /\ [][ (mCropWidth' # mCropWidth \/ mCropHeight' # mCropHeight)
              => ~mRunning ]_vars
    /\ [](\A f, g \in FrameIds :
            ( /\ frames[f].processed > 0
              /\ frames[g].processed > 0
              /\ frames[f].processSession = frames[g].processSession )
            => frames[f].crop = frames[g].crop)

\* C10 witness: the crop was changed between two sessions; a frame of each
\* was processed, with different crops, and the second session is running.
C10_Witness ==
    /\ mRunning
    /\ \E f, g \in FrameIds :
          /\ frames[f].processed > 0
          /\ frames[g].processed > 0
          /\ frames[f].processSession # frames[g].processSession
          /\ frames[f].crop # frames[g].crop

\* C11 as claimed: mBin and mEnableCompression change only in steps taken
\* while mRunning is false, and all frames processed by the workers of one
\* session were transformed by the same one of crop, cropAndCompress and
\* cropAndBin.
C11_ModeFixedWhileRunning ==
    /\ [][ (mBin' # mBin \/ mEnableCompression' # mEnableCompression)
              => ~mRunning ]_vars
    /\ [](\A f, g \in FrameIds :
            ( /\ frames[f].processed > 0
              /\ frames[g].processed > 0
              /\ frames[f].processSession = frames[g].processSession )
            => frames[f].mode = frames[g].mode)

\* C12: except in the step of start() that resets them, mAcceptedFrames
\* changes only by +1 in the counting step of add(), and mWrittenFrames and
\* mWrittenBytes change only together with one frame being passed to one
\* container, by +1 and by that frame's valid range length; so between two
\* resets no counter decreases.
C12_CountersMonotone ==
    [][ ~StartResets =>
          /\ \/ mAcceptedFrames' = mAcceptedFrames
             \/ AddCounts /\ mAcceptedFrames' = mAcceptedFrames + 1
          /\ \/ /\ UNCHANGED << mWrittenFrames, mWrittenBytes >>
                /\ \A t \in DOMAIN container :
                      container'[t].frames = container[t].frames
             \/ \E t \in DOMAIN container, f \in FrameIds :
                   /\ container'[t].frames = Append(container[t].frames, f)
                   /\ \A u \in DOMAIN container \ {t} :
                         container'[u].frames = container[u].frames
                   /\ mWrittenFrames' = mWrittenFrames + 1
                   /\ mWrittenBytes' = mWrittenBytes + ValidRangeLength(f)
          /\ mAcceptedFrames' >= mAcceptedFrames
          /\ mWrittenFrames' >= mWrittenFrames
          /\ mWrittenBytes' >= mWrittenBytes ]_vars

\* C12 witness: the second session has counted an accepted and a written
\* frame after the reset, and the first session had written a frame.
C12_Witness ==
    /\ session = 2
    /\ mAcceptedFrames > 0
    /\ mWrittenFrames > 0
    /\ mWrittenBytes > 0
    /\ \E t \in DOMAIN container : t[1] = 1 /\ container[t].frames # << >>

\* C13 as claimed, its consequence: at any time the numbers of frames
\* written by two writers of one session differ by at most 1.
C13_RoundRobin ==
    \A t, u \in DOMAIN container :
        t[1] = u[1] =>
            Len(container[t].frames) - Len(container[u].frames) <= 1

\* C13 amended: the writers take frames from the one shared ready queue,
\* whichever dequeues first; a frame is passed to a container only by the
\* writer that dequeued it, which holds it alone, and it is in no other
\* container.  Nothing bounds the difference between two writers.
C13_SharedQueue ==
    /\ [][ \A t \in DOMAIN container :
              container'[t].frames # container[t].frames =>
                  /\ ioT[t].buf # NoBuffer
                  /\ container'[t].frames =
                         Append(container[t].frames, ioT[t].buf)
                  /\ \A u \in DOMAIN ioT \ {t} : ioT[u].buf # ioT[t].buf
                  /\ \A u \in DOMAIN container :
                         ioT[t].buf \notin Range(container[u].frames) ]_vars
    /\ [](\A t \in DOMAIN ioT :
             ioT[t].pc = "wait" /\ mReadyBuffers # << >>
                 => ENABLED doStream_Wait(t))

\* C13 witness: of two writers of one session, one has written two frames
\* and the other none.
C13_Witness ==
    \E t, u \in DOMAIN container :
        /\ t[1] = u[1]
        /\ Len(container[t].frames) = 2
        /\ Len(container[u].frames) = 0

\* C14 as claimed: when container add() fails in a writer, that writer leaves
\* its loops for the commit without taking another frame, and every other
\* writer is left as it was, free to go on writing.
C14_WriteFailureIsLocal ==
    [][ \A t \in DOMAIN ioT :
          (doStream_AddFails(t) \/ doStream_AddThrows(t)) =>
              /\ ioT'[t].pc = "commit"
              /\ \A u \in DOMAIN ioT \ {t} : ioT'[u] = ioT[u] ]_vars

\* What start() and stop() do to the audio interface, as far as the claim
\* and its amendment agree: start() past the descriptor check starts the
\* interface exactly when one is supplied and audioFd >= 0; the audio step
\* of stop() comes after mRunning = false and before the joins, stops the
\* interface once if it was started and never otherwise, and forgets it; the
\* transform workers are joined before the writer workers; no other step
\* touches the audio.
AudioSteps ==
    /\ \A n \in AudioSpecInputs.fdCounts, c \in AudioSpecInputs.compression,
          a \in AudioSpecInputs.audio :
          start_Begin(n, c, a[1], a[2]) =>
              /\ audio'.starts =
                     audio.starts + (IF a[1] /\ a[2] >= 0 THEN 1 ELSE 0)
              /\ audio'.stops = audio.stops
              /\ audio'.wavWrites = audio.wavWrites
              /\ mAudioInterface' = (a[1] /\ a[2] >= 0)
    /\ \A o \in AudioWriteOutcomes :
          stop_Audio(o) =>
              /\ ~mRunning
              /\ audio'.starts = audio.starts
              /\ audio'.stops = audio.stops + (IF mAudioInterface THEN 1 ELSE 0)
              /\ ~mAudioInterface => audio'.wavWrites = audio.wavWrites
              /\ ~mAudioInterface'
              /\ UNCHANGED threadVars
    /\ (stop_JoinProcess \/ stop_JoinIo) => ~mAudioInterface
    /\ stop_JoinIo => mProcessThreads = {}
    /\ audio' # audio => ctl.pc \in { "start_check", "stop_audio" }

\* C16 as claimed: the steps above, and every stop() that follows a start()
\* which started the interface stops it once and writes the audio once, so
\* that once stop() has returned there are as many stops and as many WAV
\* writes as starts.
C16_AudioLifecycle ==
    /\ [][AudioSteps]_vars
    /\ [](NoSessionOpen =>
             /\ audio.stops = audio.starts
             /\ audio.wavWrites = audio.starts)

\* C16 amended: start() starts the interface exactly when the descriptor
\* list is not empty, an interface is supplied and audioFd >= 0, and leaves
\* the audio untouched when the list is empty; the following stop() stops
\* the interface exactly once and writes the audio exactly once if the audio
\* file can be opened for writing and not at all otherwise; a further stop()
\* stops and writes nothing.
C16_AudioLifecycleAmended ==
    /\ [][ /\ AudioSteps
           /\ StartReturnsNoFds => UNCHANGED audioVars
           /\ \A o \in AudioWriteOutcomes :
                 stop_Audio(o) /\ mAudioInterface =>
                     audio'.wavWrites =
                         audio.wavWrites + (IF o = "written" THEN 1 ELSE 0)
         ]_vars
    /\ [](/\ mAudioInterface <=> audio.starts = audio.stops + 1
          /\ ~mAudioInterface <=> audio.starts = audio.stops
          /\ audio.wavWrites <= audio.stops
          /\ NoSessionOpen => audio.stops = audio.starts)

\* C16 witness: two sessions with audio have been stopped; the audio of one
\* was written and the audio file of the other could not be opened.
C16_Witness ==
    /\ NoSessionOpen
    /\ audio.starts = 2
    /\ audio.stops = 2
    /\ audio.wavWrites = 1

\* C17: whatever the opening and writing of the audio file come to, the
\* audio step of stop() is possible, leaves the queues, counters, workers,
\* containers and frames as they are and goes on to the joins; and when
\* stop() returns every worker has ended, both thread vectors are empty and
\* every container is committed.  So the video part of a run does not
\* depend on the audio outcome.
C17_AudioFailureNonFatal ==
    /\ [][ /\ \A o \in AudioWriteOutcomes :
                 stop_Audio(o) =>
                     /\ ctl'.pc = "stop_joinProcess"
                     /\ UNCHANGED << mRunning, queueVars, counterVars,
                                     configVars, threadVars, session, addPc,
                                     frames >>
           /\ StopReturns =>
                 /\ mProcessThreads' = {}
                 /\ mIoThreads' = {}
                 /\ \A t \in DOMAIN procT : procT'[t].pc = "done"
                 /\ \A t \in DOMAIN ioT : ioT'[t].pc = "done"
                 /\ \A t \in DOMAIN container : container'[t].commits = 1
         ]_vars
    /\ [](ctl.pc = "stop_audio" /\ mAudioInterface =>
             \A o \in AudioWriteOutcomes : ENABLED stop_Audio(o))

\* C17 witness: stop() has returned from a session whose audio was stopped
\* but not written; the session's frame is in a committed container and
\* every worker has ended.
C17_Witness ==
    /\ ctl.pc = "idle"
    /\ ~mRunning
    /\ audio.stops = 1
    /\ audio.wavWrites = 0
    /\ \A t \in DOMAIN ioT : ioT[t].pc = "done"
    /\ \E t \in DOMAIN container :
          container[t].frames # << >> /\ container[t].commits = 1

\* The buffer as it was captured, and whether processBuffer has returned or
\* ended on it.
Captured ==
    CapturedBuffer(buffer.captured.pixelFormat, buffer.captured.width,
                   buffer.captured.height)

Processed == buffer.stage \in { "ready", "written", "terminated" }

SupportedFormat == buffer.captured.pixelFormat \in { "RAW10", "RAW12", "RAW16" }

\* C15: a buffer whose format is none of RAW10, RAW12, RAW16 comes out of
\* whichever of crop, cropAndCompress and cropAndBin runs on it with width,
\* height, rowStride, pixelFormat, compressionType, isCompressed, isBinned
\* and validRange as captured and with its data unlocked, and the worker
\* goes on to put it into the ready queue or the container.
C15_UnsupportedFormatUntouched ==
    (buffer.stage # "none" /\ ~SupportedFormat) =>
        /\ \A k \in { "width", "height", "rowStride", "pixelFormat",
                       "compressionType", "isCompressed", "isBinned",
                       "validRange" } : buffer[k] = Captured[k]
        /\ ~buffer.locked
        /\ buffer.lockCount = buffer.unlockCount
        /\ buffer.exception = "none"
        /\ buffer.stage \in { "dequeued", "ready", "written" }
        /\ (buffer.stage = "dequeued") <=> (buffer.calls = << >>)

\* C15 witness: a YUV buffer went through cropAndBin, which locked and
\* unlocked it, under a crop of 10 percent, and the writer has recorded it.
C15_Witness ==
    /\ buffer.stage = "written"
    /\ buffer.pixelFormat = "YUV_420_888"
    /\ buffer.calls = << "cropAndBin" >>
    /\ buffer.lockCount = 1
    /\ mCropWidth = 10

\* C18: processBuffer runs exactly one of the three operations: cropAndBin
\* when mBin is true whatever mEnableCompression is, otherwise
\* cropAndCompress when mEnableCompression is true, otherwise crop; a buffer
\* of a supported format shows the marks of that operation.
C18_Dispatch ==
    Processed =>
        /\ Len(buffer.calls) = 1
        /\ mBin => buffer.calls[1] = "cropAndBin"
        /\ (~mBin /\ mEnableCompression) => buffer.calls[1] = "cropAndCompress"
        /\ (~mBin /\ ~mEnableCompression) => buffer.calls[1] = "crop"
        /\ SupportedFormat =>
              /\ buffer.isBinned = mBin
              /\ buffer.isCompressed = mEnableCompression

\* C18 witness: with mBin and mEnableCompression both true a RAW10 buffer
\* was binned, and compressed by cropAndBin.
C18_Witness ==
    /\ buffer.stage = "ready"
    /\ mBin
    /\ mEnableCompression
    /\ buffer.captured.pixelFormat = "RAW10"
    /\ buffer.calls = << "cropAndBin" >>
    /\ buffer.isBinned
    /\ buffer.isCompressed

\* crop() has run on a RAW10 or RAW12 buffer with a crop that is not zero.
CroppedPacked ==
    /\ Processed
    /\ ~mBin
    /\ ~mEnableCompression
    /\ buffer.captured.pixelFormat \in { "RAW10", "RAW12" }
    /\ mCropWidth # 0 \/ mCropHeight # 0

\* C19: crop() leaves a RAW10 or RAW12 buffer under a non-zero crop with
\* width and height reduced by twice the horizontal and vertical crop,
\* rowStride = 10*width/8 or 12*width/8 of the new width, UNCOMPRESSED, not
\* compressed, validRange = (0, rowStride * height) of the new values and
\* its pixelFormat; RAW10 4000x3000 under a crop of 10 and 10 percent comes
\* out 3600x2700 with rowStride 4500.
C19_CropPostState ==
    CroppedPacked =>
        /\ buffer.width =
               buffer.captured.width - 2 * horizontalCrop(buffer.captured)
        /\ buffer.height =
               buffer.captured.height - 2 * verticalCrop(buffer.captured)
        /\ buffer.pixelFormat = buffer.captured.pixelFormat
        /\ buffer.pixelFormat = "RAW10" =>
               buffer.rowStride = (10 * buffer.width) \div 8
        /\ buffer.pixelFormat = "RAW12" =>
               buffer.rowStride = (12 * buffer.width) \div 8
        /\ buffer.compressionType = "UNCOMPRESSED"
        /\ ~buffer.isCompressed
        /\ buffer.validRange = << 0, buffer.rowStride * buffer.height >>
        /\ ( /\ buffer.captured =
                    [pixelFormat |-> "RAW10", width |-> 4000, height |-> 3000]
             /\ mCropWidth = 10
             /\ mCropHeight = 10 )
           => /\ buffer.width = 3600
              /\ buffer.height = 2700
              /\ buffer.rowStride = 4500

\* C19 witness: the RAW10 4000x3000 buffer was cropped by 10 and 10 percent
\* and put into the ready queue.
C19_Witness ==
    /\ CroppedPacked
    /\ buffer.stage = "ready"
    /\ buffer.captured =
           [pixelFormat |-> "RAW10", width |-> 4000, height |-> 3000]
    /\ mCropWidth = 10
    /\ mCropHeight = 10
    /\ buffer.width = 3600

\* crop() has run on a buffer of a supported format.
Cropped ==
    /\ Processed
    /\ ~mBin
    /\ ~mEnableCompression
    /\ SupportedFormat

\* C20 as claimed: the crop per side is the half-border rounded down to a
\* multiple of 4 (horizontal) and of 2 (vertical), that is
\* newWidth = width - 2*floor(cropWidth/100 * width / 2 / 4)*4 and
\* newHeight = height - 2*floor(cropHeight/100 * height / 2 / 2)*2, and both
\* crop offsets are even.
C20_CropRounding ==
    Cropped =>
        /\ buffer.width =
               buffer.captured.width
                   - 2 * ((mCropWidth * buffer.captured.width) \div 800) * 4
        /\ buffer.height =
               buffer.captured.height
                   - 2 * ((mCropHeight * buffer.captured.height) \div 400) * 2
        /\ ((buffer.captured.width - buffer.width) \div 2) % 2 = 0
        /\ ((buffer.captured.height - buffer.height) \div 2) % 2 = 0

\* r is the half-border percentage/100 * size / 2 rounded to a nearest
\* integer, an exact half either way.
NearestHalfBorder(r, percentage, size) ==
    /\ 200 * r - percentage * size <= 100
    /\ percentage * size - 200 * r <= 100

\* C20 amended: the half-border is first rounded to the nearest integer (an
\* exact half may go either way in the double arithmetic) and that integer
\* is rounded down to a multiple of 4 (horizontal) or 2 (vertical); the new
\* width and height are the old ones less twice that, both crop offsets are
\* even and at most the rounded half-border, so the cropped pixel (0,0) has
\* the Bayer colour of the original pixel (0,0).
C20_CropRoundingAmended ==
    Cropped =>
        /\ \E r \in 0 .. buffer.captured.width :
              /\ NearestHalfBorder(r, mCropWidth, buffer.captured.width)
              /\ buffer.width = buffer.captured.width - 2 * (4 * (r \div 4))
        /\ \E r \in 0 .. buffer.captured.height :
              /\ NearestHalfBorder(r, mCropHeight, buffer.captured.height)
              /\ buffer.height = buffer.captured.height - 2 * (2 * (r \div 2))
        /\ ((buffer.captured.width - buffer.width) \div 2) % 2 = 0
        /\ ((buffer.captured.height - buffer.height) \div 2) % 2 = 0

\* C20 witness: a width of 180 cropped by 35 percent, a half-border of
\* exactly 31.5 that the double arithmetic rounds to 31, comes out as
\* 180 - 2*28.
C20_Witness ==
    /\ Cropped
    /\ mCropWidth = 35
    /\ buffer.captured.width = 180
    /\ buffer.width = 124

\* crop() has run under a crop of 0 and 0 percent.
ZeroCropped ==
    /\ Processed
    /\ ~mBin
    /\ ~mEnableCompression
    /\ mCropWidth = 0
    /\ mCropHeight = 0

Compressed ==
    /\ buffer.stage = "ready"
    /\ mEnableCompression

\* C22 as claimed: cropAndCompress() leaves the buffer RAW16, BITNZPACK_2,
\* compressed, with the cropped width and height, rowStride = 2 * width and
\* validRange = (0, sum of the encoded row lengths); it hands croppedHeight
\* rows to the codec, and row r of them holds the samples of the even
\* columns of image row ystart + r from xstart on, then those of the odd
\* columns, as the captured image has them.
C22_CompressPostState ==
    Compressed =>
        LET c == buffer.captured
            stride == NativeRowStride(c.pixelFormat, c.width)
            croppedWidth_2 == croppedWidth(c) \div 2
            sum[i \in 0 .. Len(buffer.rows)] ==
                IF i = 0 THEN 0 ELSE sum[i - 1] + EncodedLength(buffer.rows[i])
        IN  /\ buffer.pixelFormat = "RAW16"
            /\ buffer.compressionType = "BITNZPACK_2"
            /\ buffer.isCompressed
            /\ buffer.width = croppedWidth(c)
            /\ buffer.height = croppedHeight(c)
            /\ buffer.rowStride = 2 * croppedWidth(c)
            /\ buffer.validRange = << 0, sum[Len(buffer.rows)] >>
            /\ Len(buffer.rows) = croppedHeight(c)
            /\ \A r \in 1 .. Len(buffer.rows) :
                  /\ Len(buffer.rows[r]) = croppedWidth(c)
                  /\ \A X \in 0 .. croppedWidth_2 - 1 :
                        /\ buffer.rows[r][X + 1] =
                               ReadPixel(c.pixelFormat, buffer.original,
                                         horizontalCrop(c) + 2 * X,
                                         verticalCrop(c) + r - 1, stride)
                        /\ buffer.rows[r][croppedWidth_2 + X + 1] =
                               ReadPixel(c.pixelFormat, buffer.original,
                                         horizontalCrop(c) + 2 * X + 1,
                                         verticalCrop(c) + r - 1, stride)

\* cropAndBin() has run on a buffer of a supported format.
Binned ==
    /\ Processed
    /\ mBin
    /\ SupportedFormat

\* C23: cropAndBin() leaves a supported buffer with half the cropped width
\* and height, rounded down, and isBinned; with compression BITNZPACK_2,
\* RAW16, compressed, rowStride = 2 * width; without compression
\* UNCOMPRESSED, not compressed, RAW10 for RAW10 and RAW12 for RAW12 and
\* RAW16; RAW10 4000x3000 without crop comes out 2000x1500 RAW10.
C23_BinPostState ==
    Binned =>
        LET c == buffer.captured
        IN  /\ buffer.width = (c.width - 2 * horizontalCrop(c)) \div 2
            /\ buffer.height = (c.height - 2 * verticalCrop(c)) \div 2
            /\ buffer.isBinned
            /\ mEnableCompression =>
                  /\ buffer.compressionType = "BITNZPACK_2"
                  /\ buffer.pixelFormat = "RAW16"
                  /\ buffer.isCompressed
                  /\ buffer.rowStride = 2 * buffer.width
            /\ ~mEnableCompression =>
                  /\ buffer.compressionType = "UNCOMPRESSED"
                  /\ ~buffer.isCompressed
                  /\ buffer.pixelFormat =
                         IF c.pixelFormat = "RAW10" THEN "RAW10" ELSE "RAW12"
            /\ ( /\ c = [pixelFormat |-> "RAW10", width |-> 4000,
                         height |-> 3000]
                 /\ mCropWidth = 0
                 /\ mCropHeight = 0
                 /\ ~mEnableCompression )
               => /\ buffer.width = 2000
                  /\ buffer.height = 1500
                  /\ buffer.pixelFormat = "RAW10"

\* C23 witness: the RAW10 4000x3000 buffer was binned without crop and
\* without compression and is in the ready queue as 2000x1500.
C23_Witness ==
    /\ Binned
    /\ buffer.stage = "ready"
    /\ buffer.captured =
           [pixelFormat |-> "RAW10", width |-> 4000, height |-> 3000]
    /\ mCropWidth = 0
    /\ mCropHeight = 0
    /\ ~mEnableCompression
    /\ buffer.width = 2000
    /\ buffer.height = 1500

\* C24 as claimed: a buffer of a supported format with even width and
\* height comes out of crop, cropAndCompress and cropAndBin, under crop
\* percentages in 0 .. 100, with a width and a height that are even and not
\* negative.
C24_EvenDimensions ==
    ( /\ Processed
      /\ SupportedFormat
      /\ buffer.captured.width % 2 = 0
      /\ buffer.captured.height % 2 = 0
      /\ mCropWidth \in 0 .. 100
      /\ mCropHeight \in 0 .. 100 )
    => /\ buffer.width >= 0
       /\ buffer.height >= 0
       /\ buffer.width % 2 = 0
       /\ buffer.height % 2 = 0

\* The sample of output column k in a row vector that holds the samples of
\* the even columns, then those of the odd columns.
ColumnSample(row0, k) ==
    IF k % 2 = 0 THEN row0[(k \div 2) + 1]
    ELSE row0[(Len(row0) \div 2) + ((k - 1) \div 2) + 1]

\* C25 as claimed: the bytes the RAW10 and RAW12 packers of cropAndBin write
\* for a row vector read back, at every column k, as the sample of column
\* k; and the bytes crop() writes for a RAW16 buffer of 12-bit samples read
\* back as RAW12, at every pixel of the cropped image, as the source pixel.
C25_PackReadRoundTrip ==
    /\ buffer.stage = "packed" =>
          \A k \in 0 .. Len(buffer.row0) - 1 :
              ColumnSample(buffer.row0, k) =
                  IF buffer.pixelFormat = "RAW10"
                     THEN RAW10(buffer.data, k, 0,
                                (10 * Len(buffer.row0)) \div 8)
                     ELSE RAW12(buffer.data, k, 0,
                                (12 * Len(buffer.row0)) \div 8)
    /\ ( /\ buffer.stage = "ready"
         /\ ~mEnableCompression
         /\ buffer.captured.pixelFormat = "RAW16" ) =>
          \A x \in 0 .. buffer.width - 1, y \in 0 .. buffer.height - 1 :
              RAW12(buffer.data, x, y, buffer.rowStride) =
                  RAW16(buffer.original,
                        x + horizontalCrop(buffer.captured),
                        y + verticalCrop(buffer.captured),
                        2 * buffer.captured.width)


\* ------------------------------------------------------------------------
\* Ordering and holding of frames in the pipeline
\* ------------------------------------------------------------------------
\* The frames a writer holds to pass them to its container's add() without
\* another call of processBuffer.
AtAdd == { ioT[t].buf : t \in { u \in DOMAIN ioT : ioT[u].pc \in { "write", "flushWrite" } } }

\* C26: processBuffer has completed exactly once on a frame before the frame
\* is passed to a container's add(): a frame in the ready queue, held by a
\* writer for add(), or written has been processed once, a frame in the
\* unprocessed queue or on its way to processBuffer not at all, and no frame
\* is processed twice.
C26_ProcessedOnceBeforeWrite ==
    \A f \in FrameIds :
        /\ frames[f].processed <= 1
        /\ WriteCount(f) > 0 => frames[f].processed = 1
        /\ f \in AtAdd => frames[f].processed = 1
        /\ f \in Range(mReadyBuffers) => frames[f].processed = 1
        /\ f \in Range(mUnprocessedBuffers) => frames[f].processed = 0

\* C26 witness: the containers hold a frame of the normal path (processed by
\* a transform worker) and a frame of the shutdown drain path (processed by
\* the writer).
C26_Witness ==
    \E f, g \in FrameIds :
        /\ WriteCount(f) = 1
        /\ WriteCount(g) = 1
        /\ frames[f].processedBy = "doProcess"
        /\ frames[g].processedBy = "doStream"

\* Number of worker threads that hold frame f.
Holders(f) ==
    Cardinality({ t \in DOMAIN procT : procT[t].buf = f })
        + Cardinality({ t \in DOMAIN ioT : ioT[t].buf = f })

\* C27: no frame is held by two worker threads at once, no frame is in a
\* queue while a worker holds it, and no frame is twice in the queues; a
\* frame that was written is nowhere any more.
C27_ExclusiveHolding ==
    \A f \in FrameIds :
        /\ Holders(f) + Occurrences(mUnprocessedBuffers, f)
               + Occurrences(mReadyBuffers, f) <= 1
        /\ WriteCount(f) > 0 =>
               /\ Holders(f) = 0
               /\ f \notin Range(mUnprocessedBuffers)
               /\ f \notin Range(mReadyBuffers)

\* C27 witness: a transform worker holds one frame while a writer holds
\* another.
C27_Witness ==
    \E t \in DOMAIN procT : \E w \in DOMAIN ioT :
        /\ procT[t].buf # NoBuffer
        /\ ioT[w].buf # NoBuffer
        /\ procT[t].buf # ioT[w].buf


C29_ShutdownOrdering ==
    \A w \in DOMAIN ioT : \A t \in DOMAIN procT :
        ( /\ container[w].commits > 0
          /\ t[1] = w[1] )
        => procT[t].buf = NoBuffer


\* One step of the calling or a worker thread, seen from writer t: what the
\* writer's place in doStream, its frame and its container may do.
DrainStep(t) ==
    LET pc == ioT[t].pc
        pcNext == ioT'[t].pc
        written == container'[t].frames = Append(container[t].frames, ioT[t].buf)
    IN  /\ pc = "check" /\ pcNext # pc =>
               \/ mRunning /\ pcNext = "wait"
               \/ ~mRunning /\ pcNext = "flushReady"
        /\ pc = "flushReady" /\ pcNext # pc =>
               IF mReadyBuffers # << >>
                  THEN /\ pcNext = "flushWrite"
                       /\ ioT'[t].buf = Head(mReadyBuffers)
                       /\ mReadyBuffers' = Tail(mReadyBuffers)
                  ELSE pcNext = "flushUnprocessed"
        /\ pc = "flushWrite" /\ pcNext # pc =>
               /\ pcNext = "flushReady"
               /\ written
               /\ frames'[ioT[t].buf].processed = frames[ioT[t].buf].processed
        /\ pc = "flushUnprocessed" /\ pcNext # pc =>
               IF mUnprocessedBuffers # << >>
                  THEN /\ pcNext = "flushProcess"
                       /\ ioT'[t].buf = Head(mUnprocessedBuffers)
                       /\ mUnprocessedBuffers' = Tail(mUnprocessedBuffers)
                  ELSE pcNext = "commit"
        /\ pc = "flushProcess" /\ pcNext # pc =>
               /\ pcNext = "flushUnprocessed"
               /\ written
               /\ frames'[ioT[t].buf].processed
                      = frames[ioT[t].buf].processed + 1
               /\ frames'[ioT[t].buf].processedBy = "doStream"
        /\ pc = "commit" /\ pcNext # pc =>
               /\ pcNext = "done"
               /\ container'[t] = [container[t] EXCEPT !.commits = @ + 1]
        /\ pc = "done" => pcNext = "done"
        /\ container'[t].commits # container[t].commits => pc = "commit"
        /\ container'[t].frames # container[t].frames =>
               pc \in { "write", "flushWrite", "flushProcess" }
        /\ container[t].commits > 0 => container'[t] = container[t]

\* C30: a writer that has seen mRunning == false takes frames from the ready
\* queue until a try_dequeue fails, then frames from the unprocessed queue,
\* processing each, until a try_dequeue fails, then commits once and ends;
\* after commit() its container gets no frame.
C30_DrainProtocol == [][\A t \in DOMAIN ioT : DrainStep(t)]_vars

\* C30 witness: a writer has ended and committed a container whose first
\* frame came from the ready queue and whose second frame it took from the
\* unprocessed queue and processed itself.
C30_Witness ==
    \E t \in DOMAIN ioT :
        /\ ioT[t].pc = "done"
        /\ container[t].commits = 1
        /\ Len(container[t].frames) = 2
        /\ frames[container[t].frames[1]].processedBy = "doProcess"
        /\ frames[container[t].frames[2]].processedBy = "doStream"


\* ------------------------------------------------------------------------
\* The data lock and the buffer pool
\* ------------------------------------------------------------------------
\* crop returned at once: a zero crop of a buffer that is not RAW16.
NothingToDo ==
    /\ buffer.calls = << "crop" >>
    /\ mCropWidth = 0
    /\ mCropHeight = 0
    /\ buffer.captured.pixelFormat # "RAW16"

\* C31: a transform operation takes the data lock at most once and gives it
\* back as often as it took it: once processBuffer has returned the lock was
\* taken and released exactly once (not at all when crop had nothing to do),
\* on the return for an unsupported format as after a transformation, and
\* the buffer is unlocked in the ready queue and when the container gets it.
C31_LockDiscipline ==
    /\ buffer.stage # "none" => buffer.lockCount <= 1
    /\ ( Processed /\ buffer.exception = "none" ) =>
           /\ ~buffer.locked
           /\ buffer.unlockCount = buffer.lockCount
           /\ buffer.lockCount = IF NothingToDo THEN 0 ELSE 1
    /\ buffer.stage \in { "ready", "written" } => ~buffer.locked

\* C31 witness: cropAndCompress has returned from a buffer of an unsupported
\* format, which went on to the container.
C31_Witness ==
    /\ buffer.stage = "written"
    /\ buffer.calls = << "cropAndCompress" >>
    /\ ~SupportedFormat
    /\ buffer.lockCount = 1
    /\ buffer.unlockCount = 1


\* C32: a frame is given back to the pool (discardBuffer) exactly once when
\* it has been passed to a container's add(), and not at all before; a
\* frame in a queue or held by a worker has not been given back.
C32_BufferReturn ==
    \A f \in FrameIds :
        /\ frames[f].discards = WriteCount(f)
        /\ frames[f].discards <= 1
        /\ ( \/ f \in Range(mUnprocessedBuffers)
             \/ f \in Range(mReadyBuffers)
             \/ Holders(f) > 0 ) => frames[f].discards = 0

\* C32 witness: every frame was written and given back, one that a
\* transform worker had processed and one that its writer took from the
\* unprocessed queue.
C32_Witness ==
    /\ Len(frames) = MaxFrames
    /\ \A f \in FrameIds : frames[f].discards = 1 /\ WriteCount(f) = 1
    /\ \E f \in FrameIds : frames[f].processedBy = "doStream"
    /\ \E f \in FrameIds : frames[f].processedBy = "doProcess"


\* ------------------------------------------------------------------------
\* The pixels of a transformed buffer
\* ------------------------------------------------------------------------
\* crop() has run on a buffer whose bytes are modelled.
CroppedPixels ==
    /\ buffer.stage = "ready"
    /\ ~mEnableCompression

\* C33: after crop() of a RAW10 or RAW12 buffer the sample at (x, y) of the
\* cropped buffer, read with the new rowStride, is the sample at
\* (x + horizontalCrop, y + verticalCrop) of the captured buffer, read with
\* the old rowStride.
C33_CroppedPixels ==
    ( CroppedPixels /\ buffer.captured.pixelFormat \in { "RAW10", "RAW12" } )
    => LET c == buffer.captured
           stride == NativeRowStride(c.pixelFormat, c.width)
       IN  \A x \in 0 .. buffer.width - 1 : \A y \in 0 .. buffer.height - 1 :
               ReadPixel(c.pixelFormat, buffer.data, x, y, buffer.rowStride)
                   = ReadPixel(c.pixelFormat, buffer.original,
                               x + horizontalCrop(c), y + verticalCrop(c),
                               stride)


\* cropAndBin() with compression off has run on a buffer whose bytes are
\* modelled.
BinnedBytes ==
    /\ buffer.stage \in { "ready", "written" }
    /\ mBin

\* The column and the row of the captured image at the centre of the kernel
\* for sample j of row vector r (both counted from 1): every block of four
\* rows gives two row vectors, which hold the samples of the columns x first
\* and those of the columns x + 1 after them.
CentreColumn(c, j) ==
    LET half == Div(croppedWidth(c), 2) \div 2
    IN  IF j <= half
           THEN horizontalCrop(c) + (4 * (j - 1))
           ELSE horizontalCrop(c) + (4 * (j - 1 - half)) + 1

CentreRow(c, r) == verticalCrop(c) + (4 * ((r - 1) \div 2)) + ((r - 1) % 2)

\* floor((p0 + 2 p1 + p2 + 2 p3 + 4 p4 + 2 p5 + p6 + 2 p7 + p8) / 16) of the
\* captured samples, in unbounded integers.
WeightedMean(c, data, ix, iy) ==
    LET n == Neighbours(c, ix, iy)
        stride == NativeRowStride(c.pixelFormat, c.width)
        v == [k \in 1 .. 9 |->
                 ReadPixel(c.pixelFormat, data, n[k][1], n[k][2], stride)
                     * (2^KernelShifts[k])]
    IN  (v[1] + v[2] + v[3] + v[4] + v[5] + v[6] + v[7] + v[8] + v[9]) \div 16

\* C34: every binned sample is the weighted mean, computed without
\* wrap-around, of the nine captured samples at x - 2, x, x + 2 by y - 2, y,
\* y + 2 (lower index max(0, i - 2), upper index (i + 2) mod size), for
\* every format and every sample value of the format.
C34_KernelValue ==
    BinnedBytes =>
        \A r \in 1 .. Len(buffer.rows) : \A j \in 1 .. Len(buffer.rows[r]) :
            buffer.rows[r][j] =
                WeightedMean(buffer.captured, buffer.original,
                             CentreColumn(buffer.captured, j),
                             CentreRow(buffer.captured, r))


\* C35: the nine pixels the kernel combines for an output sample have the
\* column parity and the row parity of the centre pixel, at the clamped
\* left and top edges and at the wrapped right and bottom edges too.
C35_LikeColour ==
    BinnedBytes =>
        \A r \in 1 .. Len(buffer.rows) : \A j \in 1 .. Len(buffer.rows[r]) :
            LET ix == CentreColumn(buffer.captured, j)
                iy == CentreRow(buffer.captured, r)
                n == Neighbours(buffer.captured, ix, iy)
            IN  \A k \in 1 .. 9 :
                    /\ n[k][1] % 2 = ix % 2
                    /\ n[k][2] % 2 = iy % 2


\* C36: after crop or cropAndBin with compression off, on a buffer of a
\* supported format, rowStride is the stride of a row of the resulting
\* format and width, and the valid range is (0, rowStride * height): the
\* bytes written are those of height rows.
C36_PayloadSize ==
    ( Processed /\ SupportedFormat /\ ~mEnableCompression )
    => /\ buffer.pixelFormat \in { "RAW10", "RAW12" }
       /\ buffer.rowStride =
              NativeRowStride(buffer.pixelFormat, buffer.width)
       /\ buffer.validRange = << 0, buffer.rowStride * buffer.height >>


\* The row memmoves of crop on a RAW10 / RAW12 buffer c: the last byte the
\* memmove of row r writes lies below the first byte the memmove of the next
\* row reads.
RowMovesInOrder(c) ==
    LET stride == NativeRowStride(c.pixelFormat, c.width)
        croppedRowStride ==
            IF c.pixelFormat = "RAW10" THEN Div(10 * croppedWidth(c), 8)
            ELSE Div(12 * croppedWidth(c), 8)
        xstart == Div(10 * horizontalCrop(c), 8)
    IN  \A r \in 0 .. croppedHeight(c) - 2 :
            (croppedRowStride * (r + 1)) - 1
                < (stride * (verticalCrop(c) + r + 1)) + xstart

\* The pixel pairs of crop on a RAW16 buffer c: the last of the three bytes
\* written for pair n lies below the first byte read for the next pair.
PairsInOrder(c) ==
    LET stride == NativeRowStride(c.pixelFormat, c.width)
        pairsPerRow == croppedWidth(c) \div 2
        read(n) == (stride * (verticalCrop(c) + (n \div pairsPerRow)))
                       + (2 * (horizontalCrop(c) + (2 * (n % pairsPerRow))))
    IN  \A n \in 0 .. (pairsPerRow * croppedHeight(c)) - 2 :
            (3 * n) + 2 < read(n + 1)

\* C37: crop and cropAndBin with compression off never read a sample from
\* bytes they have already written: in crop every write lies below the
\* bytes still to be read, and no pixel the binning kernel reads, the
\* wrapped right and bottom neighbours included, lies in bytes an earlier
\* block has packed.
C37_InPlaceSafety ==
    buffer.stage \in { "ready", "written" } =>
        IF mBin THEN buffer.stale = {}
        ELSE IF buffer.captured.pixelFormat = "RAW16"
           THEN PairsInOrder(buffer.captured)
        ELSE buffer.dataWritten => RowMovesInOrder(buffer.captured)


\* ------------------------------------------------------------------------
\* Progress, counters and sessions
\* ------------------------------------------------------------------------
\* C38: while the session runs (start() has returned and stop() is not
\* called), every frame passed to add() is in the end processed by a
\* transform worker, passed to a container's add() by a writer and given
\* back to the pool, unless stop() is called first.
C38_LivenessWhileRunning ==
    \A f \in 1 .. StopFrames :
        ( f \in FrameIds /\ mRunning /\ ctl.pc = "idle" )
        ~> ( \/ ~mRunning
             \/ /\ f \in FrameIds
                /\ frames[f].processed = 1
                /\ frames[f].processedBy = "doProcess"
                /\ WriteCount(f) = 1
                /\ frames[f].discards = 1 )

\* C38 witness: in a running session a frame went through a transform
\* worker and a writer and is back in the pool.
C38_Witness ==
    /\ mRunning
    /\ ctl.pc = "idle"
    /\ \E f \in FrameIds :
          /\ frames[f].processedBy = "doProcess"
          /\ WriteCount(f) = 1
          /\ frames[f].discards = 1


\* C39: in every reachable state, whatever start(), add() and stop() calls
\* were made, writtenFrames <= acceptedFrames.
C39_WrittenAtMostAccepted == mWrittenFrames <= mAcceptedFrames

\* C40: every frame in a container of session n was passed to add() while
\* session n was the session last started: no frame passed to add() before
\* the start() of session n, while the streamer was not running or during an
\* earlier session, is in a container of session n.
C40_SessionIsolation ==
    \A t \in DOMAIN container : \A f \in Range(container[t].frames) :
        frames[f].addSession = t[1]

====
